---- MODULE Spec2Model ----
(***************************************************************************)
(* Memory engine of cldmemory (src/src/services/memory.ts) over the vector *)
(* store wrapper (src/src/services/qdrant.ts).                             *)
(*                                                                         *)
(* Conventions                                                             *)
(*  - a string is a sequence of one-character strings;                     *)
(*  - a JavaScript value that may be undefined is an option: {} is         *)
(*    undefined, {v} is the value v;                                       *)
(*  - a JavaScript object is a function from its own keys to values, and   *)
(*    object spread is Spread;                                             *)
(*  - importance is counted in hundredths (0.5 is 50), ids are integers;   *)
(*  - the store is a function from the ids of the stored points to their   *)
(*    payloads;                                                            *)
(*  - the SSE transport server (src/unnamed/part_004) keeps transports as  *)
(*    the set of the keys of its map and clientMetadata as a function from *)
(*    session ids to metadata objects.                                     *)
(***************************************************************************)
EXTENDS Integers, Sequences, FiniteSets, TLC

VARIABLES store, nextId, call, ret, pre, prevCall, upc, uread, uarg, stale,
          transports, clientMetadata, responses, connecting, listening, nextSession

\* the SSE transport server: the keys of its two maps, the sessions whose
\* response is open, the sessions whose connect to the MCP server is pending,
\* whether the server accepts connections, and the next session id
sseVars == <<transports, clientMetadata, responses, connecting, listening, nextSession>>

vars == <<store, nextId, call, ret, pre, prevCall, upc, uread, uarg, stale, sseVars>>

(* ---- bounds ---- *)
MaxIds == 3
MaxRecords == 2
MaxAccess == 2
NumTargets == 4
NumPrefilled == 8
GraphIds == 4
MaxDepthArg == 3
MaxDeleted == 1
MaxBulk == 2
MaxPre == 2
MaxChunks == 11
MaxSearched == 3
MaxOriginals == 11
MaxNeighbours == 7
MaxSentences == 3
MaxLinked == 12
MaxSessions == 2

(* ---- program constants ---- *)
MaxAssociations == 10
MaxAutoAssociations == 3
MaxReverseAssociations == 5
SimilarLimit == 5
DefaultMaxChunkSize == 1000
ParentImportance == 80
PreviewLength == 200
ScrollLimit == 100
MaxSearchLimit == 100
ConfigSimilarityThreshold == 70
DefaultLimit == 10
CompactLength == 200

(* ---- options, objects, strings ---- *)
None == {}

Some(v) == {v}

Def(o) == o /= {}

Val(o) == CHOOSE v \in o : TRUE

\* a number that is not a number: Math.max and the mean over records one of
\* which has no importance
NaN == 0 - 1000000

Spread(a, b) ==
  [k \in (DOMAIN a) \cup (DOMAIN b) |-> IF k \in DOMAIN b THEN b[k] ELSE a[k]]

EmptyObject == [k \in {} |-> {}]

IsSpace(c) == c \in {" ", "\n", "\t"}

RECURSIVE TrimStart(_)
TrimStart(s) ==
  IF s = <<>> THEN <<>>
  ELSE IF IsSpace(Head(s)) THEN TrimStart(Tail(s)) ELSE s

RECURSIVE TrimEnd(_)
TrimEnd(s) ==
  IF s = <<>> THEN <<>>
  ELSE IF IsSpace(s[Len(s)]) THEN TrimEnd(SubSeq(s, 1, Len(s) - 1)) ELSE s

Trim(s) == TrimEnd(TrimStart(s))

Substring(s, from, to) ==
  SubSeq(s, from + 1, IF to > Len(s) THEN Len(s) ELSE to)

\* a slice that cuts nothing off
SliceWhole(s, n) == s

Slice(s, n) == SubSeq(s, 1, IF n > Len(s) THEN Len(s) ELSE n)

\* join, by halves
RECURSIVE Join(_, _)
Join(parts, sep) ==
  IF parts = <<>> THEN <<>>
  ELSE IF Len(parts) = 1 THEN parts[1]
  ELSE LET half == Len(parts) \div 2
       IN Join(SubSeq(parts, 1, half), sep) \o sep
          \o Join(SubSeq(parts, half + 1, Len(parts)), sep)

\* str.split(sep)
RECURSIVE Split(_, _)
Split(str, sep) ==
  IF \A i \in 1..Len(str) : str[i] /= sep THEN <<str>>
  ELSE LET at == CHOOSE i \in 1..Len(str) :
                   str[i] = sep /\ \A j \in 1..(i - 1) : str[j] /= sep
       IN <<SubSeq(str, 1, at - 1)>> \o Split(SubSeq(str, at + 1, Len(str)), sep)

Includes(s, x) == \E i \in 1..Len(s) : s[i] = x

Filter(s, x) == SelectSeq(s, LAMBDA y : y /= x)

Count(s, x) == Cardinality({i \in 1..Len(s) : s[i] = x})

Min(a, b) == IF a < b THEN a ELSE b

CeilDiv(a, b) == (a + b - 1) \div b

(* ---- the vector store (qdrant.ts) ---- *)
Exists(s, id) == id \in DOMAIN s

\* JSON serialisation of a payload drops the keys whose value is undefined;
\* NaN is written as null, which reads back as no number
Serialise(payload) ==
  [k \in {j \in DOMAIN payload :
            /\ Def(payload[j])
            /\ (j = "importance" => Val(payload[j]) /= NaN)} |-> payload[k]]

\* a payload read back: a key that is not stored reads as undefined
MemoryKeys ==
  {"content", "type", "importance", "associations", "context", "metadata", "accessCount"}

ReadPayload(p) == [k \in MemoryKeys |-> IF k \in DOMAIN p THEN p[k] ELSE None]

QdrantGetMemory(s, id) == IF Exists(s, id) THEN Some(ReadPayload(s[id])) ELSE None

\* upsert replaces the point, payload included
UpsertMemory(s, id, memory) ==
  [i \in (DOMAIN s) \cup {id} |-> IF i = id THEN Serialise(memory) ELSE s[i]]

\* setPayload overwrites the keys it is given and leaves the others
SetPayload(s, id, payload) ==
  IF Exists(s, id)
  THEN [s EXCEPT ![id] = Spread(s[id], Serialise(payload))]
  ELSE s

\* a merge in which the stored fields win over the patch
MetadataPayloadStoredWins(memory, updates) ==
  Spread(Spread(updates, memory),
         [accessCount |-> Some(Val(memory.accessCount) + 1)])

MetadataPayload(memory, updates) ==
  Spread(Spread(memory, updates),
         [accessCount |-> Some(Val(memory.accessCount) + 1)])

UpdateMemoryMetadata(s, id, updates) ==
  IF Exists(s, id)
  THEN SetPayload(s, id, MetadataPayload(Val(QdrantGetMemory(s, id)), updates))
  ELSE s

QdrantDeleteMemory(s, id) == [i \in (DOMAIN s) \ {id} |-> s[i]]

QdrantDeleteMemories(s, ids) ==
  [i \in (DOMAIN s) \ {ids[j] : j \in 1..Len(ids)} |-> s[i]]

(* ---- memory.ts: reads ---- *)
\* the engine's read: the record as read, and the store with the access bump
GetMemory(s, id) ==
  IF Exists(s, id)
  THEN UpdateMemoryMetadata(s, id,
         [accessCount |-> Some(Val(ReadPayload(s[id]).accessCount) + 1)])
  ELSE s

Assoc(s, id) == Val(ReadPayload(s[id]).associations)

(* ---- memory.ts: create ---- *)
Get(obj, k) == IF k \in DOMAIN obj THEN obj[k] ELSE None

Truthy(content) == Def(content) /\ Val(content) /= <<>>

OutOfRange(importance) ==
  /\ Def(importance)
  /\ Val(importance) /= NaN
  /\ (Val(importance) < 0 \/ Val(importance) > 100)

CalculateImportance(content, type) ==
  Min(100, 50 + (IF type = "episodic" THEN 20 ELSE 0)
              + (IF type = "emotional" THEN 15 ELSE 0)
              + (IF Len(content) > PreviewLength THEN 10 ELSE 0))

\* the keyword provider's answer
Keywords == <<"kw">>

\* what the store's nearest-neighbour search may answer: up to limit distinct
\* stored ids in any order
RECURSIVE Arrangements(_, _)
Arrangements(S, n) ==
  IF n = 0 \/ S = {} THEN {<<>>}
  ELSE {<<>>} \cup UNION {{<<x>> \o t : t \in Arrangements(S \ {x}, n - 1)} : x \in S}

SearchSimilar(s, limit) == Arrangements(DOMAIN s, limit)

RECURSIVE Backlink(_, _, _, _)
\* association discovery that writes nothing into the records it found
BacklinkSkipped(s, id, associations, i) == s

Backlink(s, id, associations, i) ==
  IF i > Len(associations) THEN s
  ELSE LET assocId == associations[i]
           assocMemory == QdrantGetMemory(s, assocId)
           s2 == IF Def(assocMemory)
                    /\ ~Includes(Val(Val(assocMemory).associations), id)
                 THEN UpdateMemoryMetadata(s, assocId,
                        [associations |->
                           Some(Slice(Append(Val(Val(assocMemory).associations), id),
                                      MaxReverseAssociations))])
                 ELSE s
       IN Backlink(s2, id, associations, i + 1)

UpdateAssociations(s, id, similar) ==
  LET associations == Slice(Filter(similar, id), MaxAutoAssociations)
  IN IF Len(associations) > 0
     THEN Backlink(UpdateMemoryMetadata(s, id, [associations |-> Some(associations)]),
                   id, associations, 1)
     ELSE s

NewMemory(content, type, context, importance) ==
  [content |-> Some(content),
   type |-> Some(type),
   importance |-> Some(IF Def(importance) THEN Val(importance)
                       ELSE CalculateImportance(content, type)),
   associations |-> Some(<<>>),
   context |-> Some(Spread([tags |-> Keywords],
                           IF Def(context) THEN Val(context) ELSE EmptyObject)),
   metadata |-> Some(EmptyObject),
   accessCount |-> Some(0)]

\* result of an engine call: the store afterwards, the error raised ("none"
\* when the call returns) and the value returned
Result(s, err, val) == [st |-> s, err |-> err, val |-> val]

\* create that tests the content for emptiness without trimming it
CreateMemoryNoTrim(s, id, content, type, context, importance, similar) ==
  IF ~Truthy(content)
  THEN Result(s, "validation", None)
  ELSE IF OutOfRange(importance)
  THEN Result(s, "validation", None)
  ELSE LET memory == NewMemory(Val(content), type, context, importance)
           s1 == UpsertMemory(s, id, memory)
       IN Result(UpdateAssociations(s1, id, similar), "none", Some(memory))

CreateMemory(s, id, content, type, context, importance, similar) ==
  IF ~Truthy(content) \/ Trim(Val(content)) = <<>>
  THEN Result(s, "validation", None)
  ELSE IF OutOfRange(importance)
  THEN Result(s, "validation", None)
  ELSE LET memory == NewMemory(Val(content), type, context, importance)
           s1 == UpsertMemory(s, id, memory)
       IN Result(UpdateAssociations(s1, id, similar), "none", Some(memory))

(* ---- memory.ts: update ---- *)
\* update that validates its input before it looks the record up
UpdateMemoryValidateFirst(s, id, updates) ==
  LET memory == QdrantGetMemory(s, id)
      content == Get(updates, "content")
  IN IF Def(content) /\ Trim(Val(content)) = <<>>
     THEN Result(s, "validation", None)
     ELSE IF OutOfRange(Get(updates, "importance"))
     THEN Result(s, "validation", None)
     ELSE IF ~Def(memory) THEN Result(s, "none", None)
     ELSE IF Truthy(content)
     THEN Result(UpsertMemory(s, id, Spread(Val(memory), updates)), "none",
                 Some(Spread(Val(memory), updates)))
     ELSE Result(UpdateMemoryMetadata(s, id, updates), "none",
                 Some(Spread(Val(memory), updates)))

UpdateMemory(s, id, updates) ==
  LET memory == QdrantGetMemory(s, id)
      content == Get(updates, "content")
      updatedMemory == Spread(Val(memory), updates)
  IN IF ~Def(memory) THEN Result(s, "none", None)
     ELSE IF Def(content) /\ Trim(Val(content)) = <<>>
     THEN Result(s, "validation", None)
     ELSE IF OutOfRange(Get(updates, "importance"))
     THEN Result(s, "validation", None)
     ELSE IF Truthy(content)
     THEN IF ~Def(updatedMemory.context)
          THEN Result(s, "type", None)
          ELSE Result(UpsertMemory(s, id, updatedMemory), "none", Some(updatedMemory))
     ELSE Result(UpdateMemoryMetadata(s, id, updates), "none", Some(updatedMemory))

(* ---- memory.ts: delete ---- *)
\* delete that also strips the id from the association lists of the others
DeleteMemoryCascade(s, id) ==
  Result([i \in (DOMAIN s) \ {id} |->
            Spread(s[i], [associations |->
                            Some(Filter(Val(ReadPayload(s[i]).associations), id))])],
         "none", None)

DeleteMemory(s, id) == Result(QdrantDeleteMemory(s, id), "none", None)

(* ---- memory.ts: associations ---- *)
\* connect that links the source without asking whether the target exists
ConnectMemoriesUnchecked(s, sourceId, targetId, bidirectional) ==
  LET source == QdrantGetMemory(s, sourceId)
      s1 == GetMemory(s, sourceId)
  IN IF ~Def(source) THEN Result(s1, "notfound", None)
     ELSE Result(UpdateMemoryMetadata(s1, sourceId,
                   [associations |->
                      Some(Slice(Append(Filter(Val(Val(source).associations),
                                               targetId), targetId),
                                 MaxAssociations))]),
                 "none", None)

ConnectMemories(s, sourceId, targetId, bidirectional) ==
  LET source == QdrantGetMemory(s, sourceId)
      s1 == GetMemory(s, sourceId)
      target == QdrantGetMemory(s1, targetId)
      s2 == GetMemory(s1, targetId)
      sourceAssoc == Val(Val(source).associations)
      targetAssoc == Val(Val(target).associations)
      s3 == IF ~Includes(sourceAssoc, targetId)
            THEN UpdateMemoryMetadata(s2, sourceId,
                   [associations |->
                      Some(Slice(Append(sourceAssoc, targetId), MaxAssociations))])
            ELSE s2
      s4 == IF bidirectional /\ ~Includes(targetAssoc, sourceId)
            THEN UpdateMemoryMetadata(s3, targetId,
                   [associations |->
                      Some(Slice(Append(targetAssoc, sourceId), MaxAssociations))])
            ELSE s3
  IN IF ~Def(source) \/ ~Def(target)
     THEN Result(s2, "notfound", None)
     ELSE Result(s4, "none", None)

RemoveAssociation(s, sourceId, targetId, bidirectional) ==
  LET source == QdrantGetMemory(s, sourceId)
      s1 == GetMemory(s, sourceId)
      s2 == IF Def(source) /\ Includes(Val(Val(source).associations), targetId)
            THEN UpdateMemoryMetadata(s1, sourceId,
                   [associations |->
                      Some(Filter(Val(Val(source).associations), targetId))])
            ELSE s1
      target == QdrantGetMemory(s2, targetId)
      s3 == GetMemory(s2, targetId)
      s4 == IF Def(target) /\ Includes(Val(Val(target).associations), sourceId)
            THEN UpdateMemoryMetadata(s3, targetId,
                   [associations |->
                      Some(Filter(Val(Val(target).associations), sourceId))])
            ELSE s3
  IN Result(IF bidirectional THEN s4 ELSE s2, "none", None)

(* ---- memory.ts: bulk delete ---- *)
RECURSIVE StripFrom(_, _, _, _)
StripFrom(s, id, associations, i) ==
  IF i > Len(associations) THEN s
  ELSE StripFrom(RemoveAssociation(s, associations[i], id, FALSE).st,
                 id, associations, i + 1)

RECURSIVE CleanupAssociations(_, _, _)
CleanupAssociations(s, ids, i) ==
  IF i > Len(ids) THEN s
  ELSE LET memory == QdrantGetMemory(s, ids[i])
           s1 == GetMemory(s, ids[i])
       IN CleanupAssociations(
            IF Def(memory)
            THEN StripFrom(s1, ids[i], Val(Val(memory).associations), 1)
            ELSE s1,
            ids, i + 1)

\* the fallback loop: failing is the set of positions whose own delete fails
RECURSIVE DeleteOneByOne(_, _, _, _)
\* a fallback loop that gives up at the first delete that fails
DeleteOneByOneUntilFailure(acc, ids, failing, i) ==
  IF i > Len(ids) THEN acc
  ELSE IF i \in failing
  THEN [acc EXCEPT !.failed = Append(@, ids[i])]
  ELSE DeleteOneByOne([acc EXCEPT !.st = QdrantDeleteMemory(@, ids[i]),
                                  !.deleted = @ + 1],
                      ids, failing, i + 1)

DeleteOneByOne(acc, ids, failing, i) ==
  IF i > Len(ids) THEN acc
  ELSE DeleteOneByOne(
         IF i \in failing
         THEN [acc EXCEPT !.failed = Append(@, ids[i])]
         ELSE [acc EXCEPT !.st = QdrantDeleteMemory(@, ids[i]),
                          !.deleted = @ + 1],
         ids, failing, i + 1)

\* cleanupFailsAt is the position of the id at whose lookup the store fails
\* during the cleanup pass (0: the pass completes); that failure is not caught
DeleteMemories(s, ids, cleanupFailsAt, batchFails, failing) ==
  LET s1 == CleanupAssociations(s, ids, 1)
      done == IF batchFails /\ Len(ids) > 0
              THEN DeleteOneByOne([st |-> s1, deleted |-> 0, failed |-> <<>>],
                                  ids, failing, 1)
              ELSE [st |-> QdrantDeleteMemories(s1, ids), deleted |-> Len(ids),
                    failed |-> <<>>]
  IN IF cleanupFailsAt > 0
     THEN Result(CleanupAssociations(s, SubSeq(ids, 1, cleanupFailsAt - 1), 1),
                 "store", None)
     ELSE Result(done.st, "none",
                 [deleted |-> done.deleted, failed |-> done.failed])

(* ---- memory.ts: paths ---- *)
RECURSIVE Dfs(_, _, _, _, _, _)
RECURSIVE DfsLoop(_, _, _, _, _, _, _, _)
Dfs(acc, currentId, targetId, path, depth, maxDepth) ==
  IF depth > maxDepth THEN acc
  ELSE IF currentId = targetId
  THEN [acc EXCEPT !.paths = Append(@, Append(path, currentId))]
  ELSE LET memory == QdrantGetMemory(acc.st, currentId)
           acc1 == [acc EXCEPT !.visited = @ \cup {currentId},
                               !.st = GetMemory(@, currentId)]
           acc2 == IF Def(memory)
                   THEN DfsLoop(acc1, Val(Val(memory).associations), 1,
                                currentId, targetId, path, depth, maxDepth)
                   ELSE acc1
       IN [acc2 EXCEPT !.visited = @ \ {currentId}]

DfsLoop(acc, associations, i, currentId, targetId, path, depth, maxDepth) ==
  IF i > Len(associations) THEN acc
  ELSE DfsLoop(
         IF associations[i] \notin acc.visited
         THEN Dfs(acc, associations[i], targetId, Append(path, currentId),
                  depth + 1, maxDepth)
         ELSE acc,
         associations, i + 1, currentId, targetId, path, depth, maxDepth)

\* a search that counts the start as the first edge
FindMemoryPathsFromOne(s, startId, endId, maxDepth) ==
  LET done == Dfs([st |-> s, paths |-> <<>>, visited |-> {}],
                  startId, endId, <<>>, 1, maxDepth)
  IN Result(done.st, "none", done.paths)

FindMemoryPaths(s, startId, endId, maxDepth) ==
  LET done == Dfs([st |-> s, paths |-> <<>>, visited |-> {}],
                  startId, endId, <<>>, 0, maxDepth)
  IN Result(done.st, "none", done.paths)

(* ---- chunking.ts: paragraphs ---- *)
\* split(/\n\n+/): a run of two or more newlines separates two pieces
RECURSIVE SplitParagraphs(_)
SplitParagraphs(text) ==
  LET breaks == {i \in 1..(Len(text) - 1) : text[i] = "\n" /\ text[i + 1] = "\n"}
      first == CHOOSE i \in breaks : \A k \in breaks : i <= k
      next == CHOOSE k \in (first + 2)..(Len(text) + 1) :
                /\ \A m \in first..(k - 1) : text[m] = "\n"
                /\ (k > Len(text) \/ text[k] /= "\n")
  IN IF breaks = {} THEN <<text>>
     ELSE <<SubSeq(text, 1, first - 1)>>
          \o SplitParagraphs(SubSeq(text, next, Len(text)))

ParagraphChunk(text) ==
  SelectSeq(SplitParagraphs(text), LAMBDA p : Trim(p) /= <<>>)

(* ---- chunking.ts: sentences ---- *)
\* an option of the caller, 0 when it is not given
Opt(options, key) == IF key \in DOMAIN options THEN options[key] ELSE 0

IsUpper(c) ==
  c \in {"A", "B", "C", "D", "E", "F", "G", "H", "I", "J", "K", "L", "M",
         "N", "O", "P", "Q", "R", "S", "T", "U", "V", "W", "X", "Y", "Z"}

\* replace(/([.!?])\s*(?=[A-Z])/g, '$1|'), from position i on
RECURSIVE MarkSentences(_, _)
MarkSentences(text, i) ==
  IF i > Len(text) THEN <<>>
  ELSE LET after == CHOOSE j \in (i + 1)..(Len(text) + 1) :
                      /\ \A k \in (i + 1)..(j - 1) : IsSpace(text[k])
                      /\ (j > Len(text) \/ ~IsSpace(text[j]))
       IN IF /\ text[i] \in {".", "!", "?"}
             /\ after <= Len(text)
             /\ IsUpper(text[after])
          THEN <<text[i], "|">> \o MarkSentences(text, after)
          ELSE <<text[i]>> \o MarkSentences(text, i + 1)

SplitIntoSentences(text) ==
  LET pieces == Split(MarkSentences(text, 1), "|")
      trimmed == [i \in 1..Len(pieces) |-> Trim(pieces[i])]
  IN SelectSeq(trimmed, LAMBDA piece : Len(piece) > 0)

EstimateTokens(text) == CeilDiv(Len(text), 4)

\* text.indexOf(piece, from), positions counted from 0
TextIndexOf(text, piece, from) ==
  LET first == IF from < 0 THEN 0 ELSE from
      hits == {i \in first..(Len(text) - Len(piece)) :
                 SubSeq(text, i + 1, i + Len(piece)) = piece}
  IN IF hits = {} THEN 0 - 1 ELSE CHOOSE i \in hits : \A k \in hits : i <= k

RECURSIVE SumTokens(_)
SumTokens(sentences) ==
  IF sentences = <<>> THEN 0
  ELSE EstimateTokens(Head(sentences)) + SumTokens(Tail(sentences))

\* a chunk: next to the fields of TextChunk, sentences is the currentChunk
\* array that content is joined from and density is metadata.semanticDensity
TextChunk(content, startIndex, endIndex, sentences, density) ==
  [content |-> content, startIndex |-> startIndex, endIndex |-> endIndex,
   sentences |-> sentences, density |-> density]

ChunkOfSentences(currentChunk, chunkStartIndex, density) ==
  LET chunkContent == Join(currentChunk, <<" ">>)
  IN TextChunk(chunkContent, chunkStartIndex, chunkStartIndex + Len(chunkContent),
               currentChunk, density)

\* Math.ceil(options.overlapSize / 50)
OverlapSentences(options) == CeilDiv(Opt(options, "overlapSize"), 50)

RECURSIVE SentenceLoop(_, _, _, _, _)
\* acc: chunks, currentChunk, currentTokens and chunkStartIndex before the
\* sentence at position i (counted from 1) is looked at
SentenceLoop(acc, text, sentences, i, options) ==
  IF i > Len(sentences) THEN acc
  ELSE LET sentence == sentences[i]
           sentenceTokens == EstimateTokens(sentence)
           overflow == /\ Opt(options, "maxChunkSize") /= 0
                       /\ acc.currentTokens + sentenceTokens > Opt(options, "maxChunkSize")
                       /\ Len(acc.currentChunk) > 0
           saved == Append(acc.chunks,
                           ChunkOfSentences(acc.currentChunk, acc.chunkStartIndex, None))
           startIdx == IF i - 1 - OverlapSentences(options) > 0
                       THEN i - 1 - OverlapSentences(options) ELSE 0
           carried == SubSeq(sentences, startIdx + 1, i - 1)
           started ==
             IF ~overflow THEN acc
             ELSE IF Opt(options, "overlapSize") > 0
             THEN [chunks |-> saved, currentChunk |-> carried,
                   currentTokens |-> SumTokens(carried),
                   chunkStartIndex |-> TextIndexOf(text, carried[1], 0)]
             ELSE [chunks |-> saved, currentChunk |-> <<>>, currentTokens |-> 0,
                   chunkStartIndex |-> TextIndexOf(text, sentence, 0)]
       IN SentenceLoop([started EXCEPT !.currentChunk = Append(@, sentence),
                                       !.currentTokens = @ + sentenceTokens],
                       text, sentences, i + 1, options)

SentenceChunk(text, options) ==
  LET done == SentenceLoop([chunks |-> <<>>, currentChunk |-> <<>>,
                            currentTokens |-> 0, chunkStartIndex |-> 0],
                           text, SplitIntoSentences(text), 1, options)
  IN IF Len(done.currentChunk) > 0
     THEN Append(done.chunks,
                 ChunkOfSentences(done.currentChunk, done.chunkStartIndex, None))
     ELSE done.chunks

(* ---- chunking.ts: semantic groups ---- *)
DefaultSemanticThreshold == 75

\* embeddings stands for the answers of the embedding provider: similarity[i]
\* is the cosine similarity, in hundredths, of the chunk in progress and
\* sentence i, and density the mean pairwise similarity inside a chunk
SemanticDensity(embeddings, count) ==
  IF count < 2 THEN Some(100) ELSE Some(embeddings.density)

RECURSIVE SemanticLoop(_, _, _, _, _, _)
SemanticLoop(acc, text, sentences, i, options, embeddings) ==
  IF i > Len(sentences) THEN acc
  ELSE LET threshold == IF Opt(options, "semanticThreshold") /= 0
                        THEN Opt(options, "semanticThreshold")
                        ELSE DefaultSemanticThreshold
           estimatedTokens ==
             EstimateTokens(Join(acc.currentChunk, <<" ">>) \o <<" ">> \o sentences[i])
           continues ==
             /\ embeddings.similarity[i] >= threshold
             /\ (Opt(options, "maxChunkSize") = 0
                   \/ estimatedTokens <= Opt(options, "maxChunkSize"))
           startIdx == IF i - 1 - OverlapSentences(options) > 0
                       THEN i - 1 - OverlapSentences(options) ELSE 0
           saved ==
             Append(acc.chunks,
                    ChunkOfSentences(acc.currentChunk,
                                     TextIndexOf(text, acc.currentChunk[1], 0),
                                     SemanticDensity(embeddings,
                                                     i - 1 - acc.chunkStartIndex)))
       IN SemanticLoop(
            IF continues
            THEN [acc EXCEPT !.currentChunk = Append(@, sentences[i])]
            ELSE IF Opt(options, "overlapSize") > 0
            THEN [chunks |-> saved,
                  currentChunk |-> SubSeq(sentences, startIdx + 1, i),
                  chunkStartIndex |-> startIdx]
            ELSE [chunks |-> saved, currentChunk |-> <<sentences[i]>>,
                  chunkStartIndex |-> i - 1],
            text, sentences, i + 1, options, embeddings)

SemanticChunk(text, options, embeddings) ==
  LET sentences == SplitIntoSentences(text)
      done == SemanticLoop([chunks |-> <<>>, currentChunk |-> <<sentences[1]>>,
                            chunkStartIndex |-> 0],
                           text, sentences, 2, options, embeddings)
  IN IF Len(sentences) = 0 THEN <<>>
     ELSE Append(done.chunks,
                 ChunkOfSentences(done.currentChunk,
                                  TextIndexOf(text, done.currentChunk[1], 0),
                                  SemanticDensity(embeddings,
                                                  Len(sentences) - done.chunkStartIndex)))

(* ---- chunking.ts: paragraphs as chunks ---- *)
\* acc: the chunks and currentIndex
RECURSIVE ParagraphLoop(_, _, _, _)
ParagraphLoop(acc, text, paragraphs, i) ==
  IF i > Len(paragraphs) THEN acc
  ELSE LET startIndex == TextIndexOf(text, paragraphs[i], acc.currentIndex)
           endIndex == startIndex + Len(paragraphs[i])
       IN ParagraphLoop([chunks |-> Append(acc.chunks,
                                           TextChunk(paragraphs[i], startIndex, endIndex,
                                                     <<>>, None)),
                         currentIndex |-> endIndex],
                        text, paragraphs, i + 1)

ParagraphChunks(text) ==
  ParagraphLoop([chunks |-> <<>>, currentIndex |-> 0], text, ParagraphChunk(text), 1).chunks

(* ---- chunking.ts: fixed windows ---- *)
DefaultFixedSize == 500

BoundarySearch == 50

FixedMaxSize(options) ==
  IF Opt(options, "maxChunkSize") /= 0 THEN Opt(options, "maxChunkSize")
  ELSE DefaultFixedSize

\* options.overlapSize || Math.floor(maxSize * 0.1)
FixedOverlapSize(options) ==
  IF Opt(options, "overlapSize") /= 0 THEN Opt(options, "overlapSize")
  ELSE FixedMaxSize(options) \div 10

\* an index as substring reads it
Clamp(i, text) == IF i < 0 THEN 0 ELSE IF i > Len(text) THEN Len(text) ELSE i

\* the end of the window that starts at startIndex
FixedEndIndex(text, maxSize, startIndex) ==
  LET endIndex == startIndex + maxSize
      searchStart == IF startIndex > endIndex - BoundarySearch THEN startIndex
                     ELSE endIndex - BoundarySearch
      sentenceEnd == TextIndexOf(text, <<".", " ">>, searchStart)
  IN IF endIndex < Len(text)
     THEN IF sentenceEnd /= 0 - 1 /\ sentenceEnd < endIndex + BoundarySearch
          THEN sentenceEnd + 2 ELSE endIndex
     ELSE Len(text)

\* one turn of the loop of fixedChunk: the window pushed
FixedWindow(text, maxSize, startIndex) ==
  LET endIndex == FixedEndIndex(text, maxSize, startIndex)
  IN TextChunk(SubSeq(text, Clamp(startIndex, text) + 1, Clamp(endIndex, text)),
               startIndex, endIndex, <<>>, None)

\* startIndex = endIndex - overlapSize
FixedNextStart(text, maxSize, overlapSize, startIndex) ==
  FixedEndIndex(text, maxSize, startIndex) - overlapSize

\* the loop, given up after fuel turns: ended tells whether it was left
RECURSIVE FixedLoop(_, _, _, _, _, _)
FixedLoop(chunks, text, maxSize, overlapSize, startIndex, fuel) ==
  IF ~(startIndex < Len(text)) THEN [ended |-> TRUE, chunks |-> chunks]
  ELSE IF fuel = 0 THEN [ended |-> FALSE, chunks |-> chunks]
  ELSE FixedLoop(Append(chunks, FixedWindow(text, maxSize, startIndex)),
                 text, maxSize, overlapSize,
                 FixedNextStart(text, maxSize, overlapSize, startIndex), fuel - 1)

\* a run that has not left its loop after one turn more than the text has
\* characters is taken to stay in it: a run that ends pushes at most one
\* window for each character
FixedChunk(text, options) ==
  FixedLoop(<<>>, text, FixedMaxSize(options), FixedOverlapSize(options), 0,
            Len(text) + 1)

\* the answers when the provider is not asked
NoEmbeddings == [similarity |-> <<>>, density |-> 100]

(* ---- chunking.ts: the method chosen ---- *)
\* ended is FALSE when the method does not return
ChunkText(text, options, embeddings) ==
  IF options.method = "semantic"
  THEN [ended |-> TRUE, chunks |-> SemanticChunk(text, options, embeddings)]
  ELSE IF options.method = "sentence"
  THEN [ended |-> TRUE, chunks |-> SentenceChunk(text, options)]
  ELSE IF options.method = "paragraph"
  THEN [ended |-> TRUE, chunks |-> ParagraphChunks(text)]
  ELSE FixedChunk(text, options)

(* ---- memory.ts: chunked create ---- *)
ChunkedPrefix(n) ==
  <<"[", "C", "h", "u", "n", "k", "e", "d", " ", "M", "e", "m", "o", "r", "y",
    " ", "-", " ", ToString(n), " ", "p", "a", "r", "t", "s", "]", " ">>

Ellipsis == <<".", ".", ".">>

\* importance || fallback
OrElse(importance, fallback) ==
  IF Def(importance) /\ Val(importance) /= 0 THEN Val(importance) ELSE fallback

\* the answer of the nearest-neighbour search during the creates of one
\* chunked call: nothing, or the stored ids, newest first or oldest first
RECURSIVE Descending(_)
Descending(S) ==
  IF S = {} THEN <<>>
  ELSE LET m == CHOOSE x \in S : \A y \in S : y <= x
       IN <<m>> \o Descending(S \ {m})

RECURSIVE Ascending(_)
Ascending(S) ==
  IF S = {} THEN <<>>
  ELSE LET m == CHOOSE x \in S : \A y \in S : x <= y
       IN <<m>> \o Ascending(S \ {m})

SimilarByPolicy(policy, ids) ==
  IF policy = "all" THEN Slice(Descending(ids), SimilarLimit)
  ELSE IF policy = "oldest" THEN Slice(Ascending(ids), SimilarLimit)
  ELSE <<>>

RECURSIVE CreateChunks(_, _, _, _, _, _, _, _)
CreateChunks(acc, chunks, i, parentId, type, context, importance, policy) ==
  IF i > Len(chunks) \/ acc.err /= "none" THEN acc
  ELSE LET id == parentId + i
           chunk == chunks[i]
           chunkContext ==
             Spread(Spread(IF Def(context) THEN Val(context) ELSE EmptyObject,
                           [chunkIndex |-> i - 1, chunkOf |-> parentId,
                            totalChunks |-> Len(chunks)]),
                    IF Def(chunk.density) THEN [semanticDensity |-> Val(chunk.density)]
                    ELSE EmptyObject)
           chunkImportance == OrElse(importance, CalculateImportance(chunk.content, type))
           adjustedImportance ==
             Min(100, (chunkImportance * OrElse(chunk.density, 100)) \div 100)
           created == CreateMemory(acc.st, id, Some(chunk.content), type,
                                   Some(chunkContext), Some(adjustedImportance),
                                   SimilarByPolicy(policy, (DOMAIN acc.st) \cup {id}))
           linked == ConnectMemories(created.st, parentId, id, TRUE)
       IN CreateChunks(
            IF created.err /= "none" THEN Result(created.st, created.err, acc.val)
            ELSE Result(linked.st, linked.err, Append(acc.val, id)),
            chunks, i + 1, parentId, type, context, importance, policy)

RECURSIVE LinkAdjacent(_, _, _)
\* a chunked create that leaves the children unchained
LinkAdjacentSkipped(acc, memories, i) == acc

LinkAdjacent(acc, memories, i) ==
  IF i >= Len(memories) \/ acc.err /= "none" THEN acc
  ELSE LET linked == ConnectMemories(acc.st, memories[i], memories[i + 1], TRUE)
       IN LinkAdjacent(Result(linked.st, linked.err, acc.val), memories, i + 1)

\* options is the caller's chunkingOptions; the returned value is the list of
\* the ids of the records created, parent first; "hang" stands for a call
\* that does not return
CreateMemoryWithChunking(s, id, content, type, context, importance, options, policy, embeddings) ==
  LET maxChunkSize == IF options.maxChunkSize /= 0 THEN options.maxChunkSize
                      ELSE DefaultMaxChunkSize
      single == CreateMemory(s, id, Some(content), type, context, importance,
                             SimilarByPolicy(policy, (DOMAIN s) \cup {id}))
      \* what follows chunkText, for each answer of chunkText (there is one)
      afterChunkText ==
        {LET chunks == chunked.chunks
             parent == CreateMemory(s, id,
                         Some(ChunkedPrefix(Len(chunks))
                              \o Substring(content, 0, PreviewLength) \o Ellipsis),
                         type,
                         Some(Spread(IF Def(context) THEN Val(context) ELSE EmptyObject,
                                     [isParentChunk |-> TRUE,
                                      totalChunks |-> Len(chunks)])),
                         Some(OrElse(importance, ParentImportance)),
                         SimilarByPolicy(policy, (DOMAIN s) \cup {id}))
             children == CreateChunks(Result(parent.st, "none", <<id>>), chunks, 1, id,
                                      type, context, importance, policy)
         IN IF ~chunked.ended THEN Result(s, "hang", <<>>)
            ELSE IF parent.err /= "none" THEN Result(parent.st, parent.err, <<>>)
            ELSE LinkAdjacent(children, children.val, 2)
         : chunked \in {ChunkText(content, options, embeddings)}}
  IN IF CeilDiv(Len(content), 4) <= maxChunkSize
     THEN Result(single.st, single.err,
                 IF single.err = "none" THEN <<id>> ELSE <<>>)
     ELSE CHOOSE done \in afterChunkText : TRUE

(* ---- memory.ts: consolidation ---- *)
MergeSeparator == <<"\n", "\n", "-", "-", "-", "\n", "\n">>

CompositeHeader(n) ==
  <<"C", "o", "m", "p", "o", "s", "i", "t", "e", " ", "m", "e", "m", "o", "r", "y",
    " ", "f", "r", "o", "m", " ", ToString(n), " ", "s", "o", "u", "r", "c", "e", "s",
    ":", "\n", "\n">>

RECURSIVE SumImportance(_)
SumImportance(ms) ==
  IF ms = <<>> THEN 0 ELSE Val(ms[1].importance) + SumImportance(Tail(ms))

AllNumbers(ms) == \A i \in 1..Len(ms) : Def(ms[i].importance)

MaxImportance(ms) ==
  IF AllNumbers(ms)
  THEN CHOOSE v \in {Val(ms[i].importance) : i \in 1..Len(ms)} :
         \A i \in 1..Len(ms) : Val(ms[i].importance) <= v
  ELSE NaN

MeanImportance(ms) ==
  IF AllNumbers(ms) THEN SumImportance(ms) \div Len(ms) ELSE NaN

\* reduce((max, m) => m.importance > max.importance ? m : max)
RECURSIVE MostImportant(_, _, _)
MostImportant(ms, i, max) ==
  IF i > Len(ms) THEN max
  ELSE MostImportant(ms, i + 1,
         IF Def(ms[i].importance) /\ Def(max.importance)
            /\ Val(ms[i].importance) > Val(max.importance)
         THEN ms[i] ELSE max)

RECURSIVE UnionTags(_, _)
UnionTags(ms, tags) ==
  IF ms = <<>> THEN tags
  ELSE LET own == IF "tags" \in DOMAIN Val(ms[1].context)
                  THEN Val(ms[1].context).tags ELSE <<>>
       IN UnionTags(Tail(ms),
                    tags \o SelectSeq(own, LAMBDA t : ~Includes(tags, t)))

RECURSIVE ReadAll(_, _, _)
ReadAll(acc, memoryIds, i) ==
  IF i > Len(memoryIds) THEN acc
  ELSE LET memory == QdrantGetMemory(acc.st, memoryIds[i])
       IN ReadAll([st |-> GetMemory(acc.st, memoryIds[i]),
                   valid |-> IF Def(memory) THEN Append(acc.valid, Val(memory))
                             ELSE acc.valid],
                  memoryIds, i + 1)

RECURSIVE LinkOriginals(_, _, _, _)
\* a linking step that also links the original back to the new record
LinkOriginalsBothWays(acc, id, memoryIds, i) ==
  IF i > Len(memoryIds) \/ acc.err /= "none" THEN acc
  ELSE LET linked == ConnectMemories(acc.st, id, memoryIds[i], TRUE)
       IN LinkOriginals(Result(linked.st, linked.err, acc.val), id, memoryIds, i + 1)

LinkOriginals(acc, id, memoryIds, i) ==
  IF i > Len(memoryIds) \/ acc.err /= "none" THEN acc
  ELSE LET linked == ConnectMemories(acc.st, id, memoryIds[i], FALSE)
       IN LinkOriginals(Result(linked.st, linked.err, acc.val), id, memoryIds, i + 1)

RECURSIVE DeleteOriginals(_, _, _)
DeleteOriginals(s, memoryIds, i) ==
  IF i > Len(memoryIds) THEN s
  ELSE DeleteOriginals(QdrantDeleteMemory(s, memoryIds[i]), memoryIds, i + 1)

\* summary is the answer of the summarising provider, similar the answer of
\* the nearest-neighbour search of the create
ConsolidateMemories(s, id, memoryIds, strategy, keepOriginals, summary, similar) ==
  LET read == ReadAll([st |-> s, valid |-> <<>>], memoryIds, 1)
      valid == read.valid
      contents == [i \in 1..Len(valid) |-> Val(valid[i].content)]
      most == MostImportant(valid, 2, valid[1])
      content ==
        CASE strategy = "merge_content" -> Join(contents, MergeSeparator)
          [] strategy = "summarize" -> summary
          [] strategy = "keep_most_important" -> Val(most.content)
          [] strategy = "create_composite" ->
               CompositeHeader(Len(valid))
               \o Join([i \in 1..Len(valid) |->
                          <<"-", " ">> \o Substring(contents[i], 0, 100) \o Ellipsis],
                       <<"\n">>)
      importance ==
        CASE strategy = "merge_content" -> Some(MaxImportance(valid))
          [] strategy = "summarize" -> Some(MeanImportance(valid))
          [] strategy = "keep_most_important" -> most.importance
          [] strategy = "create_composite" -> Some(MaxImportance(valid))
      context ==
        Spread(IF strategy = "keep_most_important" THEN Val(most.context)
               ELSE EmptyObject,
               [tags |-> UnionTags(valid, <<>>)])
      created == CreateMemory(read.st, id, Some(content), "semantic", Some(context),
                              importance, similar)
      linked == LinkOriginals(created, id, memoryIds, 1)
  IN IF Len(valid) < 2 THEN Result(read.st, "validation", None)
     ELSE IF created.err /= "none" THEN created
     ELSE IF linked.err /= "none" THEN linked
     ELSE IF keepOriginals THEN linked
     ELSE Result(DeleteOriginals(linked.st, memoryIds, 1), "none", linked.val)

(* ---- qdrant.ts: listings and ranked search ---- *)
\* the elements of S as a list, in the strict total order Before
RankBy(S, Before(_, _)) ==
  LET placed == {<<1 + Cardinality({y \in S : Before(y, x)}), x>> : x \in S}
  IN [p \in 1..Cardinality(S) |-> (CHOOSE e \in placed : e[1] = p)[2]]

\* a record as the store returns it
WithId(s, id) == Spread(ReadPayload(s[id]), [id |-> Some(id)])

\* a filter: the type and minImportance clauses, and whether emotionalRange
\* or dateRange clauses are present, with the ids that satisfy those
HasClauses(filter) ==
  Def(filter.type) \/ Def(filter.minImportance) \/ filter.others

Matches(s, id, filter) ==
  LET memory == ReadPayload(s[id])
  IN /\ Def(filter.type) => memory.type = filter.type
     /\ Def(filter.minImportance) =>
          /\ Def(memory.importance)
          /\ Val(memory.importance) >= Val(filter.minImportance)
     /\ filter.others => id \in filter.othersMatch

\* scroll lists points in the order of their uuids, which is unrelated to the
\* order of creation: uuidOrder says whether it is the same or the reverse
ByUuid(S, uuidOrder) ==
  RankBy(S, LAMBDA a, b : IF uuidOrder = "reverse" THEN a > b ELSE a < b)

\* a listing that ignores the limit it is given
SearchByFiltersUnlimited(s, filter, limit, uuidOrder) ==
  RankBy({id \in DOMAIN s : Matches(s, id, filter)}, LAMBDA a, b : a < b)

SearchByFilters(s, filter, limit, uuidOrder) ==
  Slice(ByUuid({id \in DOMAIN s : Matches(s, id, filter)}, uuidOrder), limit)

ChunkOf(s, id) ==
  LET context == ReadPayload(s[id]).context
  IN IF Def(context) /\ "chunkOf" \in DOMAIN Val(context)
     THEN Some(Val(context).chunkOf) ELSE None

SearchByMetadata(s, chunkOf, uuidOrder) ==
  Slice(ByUuid({id \in DOMAIN s : ChunkOf(s, id) = Some(chunkOf)}, uuidOrder),
        ScrollLimit)

\* a ranked search that keeps the records that score at most the threshold
SearchSimilarBelow(s, scores, limit, filter, threshold) ==
  LET similarityThreshold ==
        IF Def(threshold) THEN Val(threshold) ELSE ConfigSimilarityThreshold
  IN Slice(RankBy({id \in DOMAIN s :
                     Matches(s, id, filter) /\ scores[id] <= similarityThreshold},
                  LAMBDA a, b : a < b),
           limit)

\* scores gives the similarity of each stored record to the query
SearchSimilarWith(s, scores, limit, filter, threshold) ==
  LET similarityThreshold ==
        IF Def(threshold) THEN Val(threshold) ELSE ConfigSimilarityThreshold
      searchLimit == Min(limit * 3, MaxSearchLimit)
      hits == {id \in DOMAIN s :
                 Matches(s, id, filter) /\ scores[id] >= similarityThreshold}
      results ==
        Slice(RankBy(hits, LAMBDA a, b :
                             \/ scores[a] > scores[b]
                             \/ (scores[a] = scores[b] /\ a < b)),
              searchLimit)
  IN Slice(SelectSeq(results, LAMBDA id : scores[id] >= similarityThreshold), limit)

(* ---- memory.ts: search ---- *)
RECURSIVE BumpAll(_, _, _)
BumpAll(s, memories, i) ==
  IF i > Len(memories) THEN s
  ELSE BumpAll(UpdateMemoryMetadata(s, Val(memories[i].id),
                 [accessCount |-> Some(Val(memories[i].accessCount) + 1)]),
               memories, i + 1)

\* the association lists of the records found, one after the other
RECURSIVE AssociationsOf(_, _)
AssociationsOf(memories, i) ==
  IF i > Len(memories) THEN <<>>
  ELSE Val(memories[i].associations) \o AssociationsOf(memories, i + 1)

\* acc: the records collected, the ids processed and the lookups made
RECURSIVE AppendAssociated(_, _, _, _)
\* an append that does not ask whether the record is in the result already
AppendAssociatedAgain(s, acc, assocIds, i) ==
  IF i > Len(assocIds) THEN acc
  ELSE AppendAssociated(s,
         IF Exists(s, assocIds[i])
         THEN [all |-> Append(acc.all, WithId(s, assocIds[i])),
               processed |-> acc.processed \cup {assocIds[i]},
               lookups |-> acc.lookups + 1]
         ELSE [acc EXCEPT !.lookups = @ + 1],
         assocIds, i + 1)

AppendAssociated(s, acc, assocIds, i) ==
  IF i > Len(assocIds) THEN acc
  ELSE AppendAssociated(s,
         IF assocIds[i] \in acc.processed THEN acc
         ELSE IF Exists(s, assocIds[i])
         THEN [all |-> Append(acc.all, WithId(s, assocIds[i])),
               processed |-> acc.processed \cup {assocIds[i]},
               lookups |-> acc.lookups + 1]
         ELSE [acc EXCEPT !.lookups = @ + 1],
         assocIds, i + 1)

ToCompactMemory(memory) ==
  LET content == Val(memory.content)
      context == Val(memory.context)
  IN [id |-> memory.id,
      content |-> Some(IF Len(content) > CompactLength
                       THEN Substring(content, 0, CompactLength - 3) \o <<".", ".", ".">>
                       ELSE content),
      type |-> memory.type,
      importance |-> memory.importance,
      tags |-> IF "tags" \in DOMAIN context THEN Some(context.tags) ELSE None]

\* the value returned carries, next to the records, the number of calls made
\* to the embedding provider and to the store
SearchMemories(s, params, scores, uuidOrder) ==
  LET filter == [type |-> params.type, minImportance |-> params.minImportance,
                 others |-> params.others, othersMatch |-> params.othersMatch]
      limit == IF Def(params.limit) /\ Val(params.limit) /= 0
               THEN Val(params.limit) ELSE DefaultLimit
      noQuery == ~Truthy(params.query) \/ Trim(Val(params.query)) = <<>>
      listed == ~noQuery \/ HasClauses(filter)
      found == IF noQuery
               THEN IF HasClauses(filter)
                    THEN SearchByFilters(s, filter, limit, uuidOrder)
                    ELSE <<>>
               ELSE SearchSimilarWith(s, scores, limit, filter,
                                      params.similarityThreshold)
      memories == [i \in 1..Len(found) |-> WithId(s, found[i])]
      s1 == BumpAll(s, memories, 1)
      appended == AppendAssociated(s1,
                    [all |-> memories,
                     processed |-> {found[i] : i \in 1..Len(found)},
                     lookups |-> 0],
                    AssociationsOf(memories, 1), 1)
      calls == (IF listed THEN 1 ELSE 0) + Len(found)
  IN Result(s1, "none",
       [memories |-> IF params.includeAssociations THEN appended.all
                     ELSE IF params.detailLevel = "compact"
                     THEN [i \in 1..Len(memories) |-> ToCompactMemory(memories[i])]
                     ELSE memories,
        embedCalls |-> IF noQuery THEN 0 ELSE 1,
        storeCalls |-> IF params.includeAssociations
                       THEN calls + appended.lookups ELSE calls])

ChunkIndex(s, id) ==
  LET context == Val(ReadPayload(s[id]).context)
  IN IF "chunkIndex" \in DOMAIN context THEN context.chunkIndex ELSE 0

IsParentChunk(memory) ==
  /\ "isParentChunk" \in DOMAIN Val(memory.context)
  /\ Val(memory.context).isParentChunk

\* the place of an element in a list without repetitions
IndexOf(list, x) == CHOOSE i \in 1..Len(list) : list[i] = x

\* the parent with the content of its chunks, in the order of their index
\* (a stable sort of the listing)
ReconstructedMemory(s, memory, chunks) ==
  LET sorted == RankBy({chunks[i] : i \in 1..Len(chunks)},
                       LAMBDA a, b :
                         \/ ChunkIndex(s, a) < ChunkIndex(s, b)
                         \/ /\ ChunkIndex(s, a) = ChunkIndex(s, b)
                            /\ IndexOf(chunks, a) < IndexOf(chunks, b))
      fullContent == Join([i \in 1..Len(sorted) |->
                             Val(ReadPayload(s[sorted[i]]).content)],
                          <<"\n", "\n">>)
  IN Spread(memory,
            [content |-> Some(fullContent),
             metadata |-> Some(Spread(Val(memory.metadata),
                                      [reconstructed |-> TRUE,
                                       chunkCount |-> Len(chunks)]))])

\* acc: the records kept, the parents processed and the listings made
RECURSIVE Reconstruct(_, _, _, _, _)
\* a pass that keeps every record found, chunks included
ReconstructKeepingChunks(s, acc, memories, i, uuidOrder) ==
  [acc EXCEPT !.kept = memories]

Reconstruct(s, acc, memories, i, uuidOrder) ==
  IF i > Len(memories) THEN acc
  ELSE LET memory == memories[i]
           id == Val(memory.id)
           chunks == SearchByMetadata(s, id, uuidOrder)
       IN Reconstruct(s,
            IF IsParentChunk(memory) /\ id \notin acc.processed
            THEN IF Len(chunks) > 0
                 THEN [kept |-> Append(acc.kept, ReconstructedMemory(s, memory, chunks)),
                       processed |-> acc.processed \cup {id},
                       listings |-> acc.listings + 1]
                 ELSE [acc EXCEPT !.kept = Append(@, memory),
                                  !.listings = @ + 1]
            ELSE IF "chunkOf" \notin DOMAIN Val(memory.context)
            THEN [acc EXCEPT !.kept = Append(@, memory)]
            ELSE acc,
            memories, i + 1, uuidOrder)

SearchChunkedMemories(s, params, scores, uuidOrder) ==
  LET searched == SearchMemories(s, params, scores, uuidOrder)
      done == Reconstruct(searched.st,
                          [kept |-> <<>>, processed |-> {}, listings |-> 0],
                          searched.val.memories, 1, uuidOrder)
  IN IF ~params.reconstructChunks \/ params.detailLevel = "compact"
     THEN searched
     ELSE Result(searched.st, "none",
                 [memories |-> done.kept,
                  embedCalls |-> searched.val.embedCalls,
                  storeCalls |-> searched.val.storeCalls + done.listings])

(* ---- memory.ts: association graph ---- *)
\* an id as the uuid the engine gives a record: groups of characters
\* separated by "-" (one character a group here); the first group tells the
\* records apart
Uuid(id) == <<ToString(id), "-", "0", "-", "4", "-", "8", "-", "0">>

\* [memoryId, assocId].sort().join('-'): two uuids that differ in their first
\* character sort as their ids do
EdgeKey(memoryId, assocId) ==
  IF memoryId <= assocId
  THEN Uuid(memoryId) \o <<"-">> \o Uuid(assocId)
  ELSE Uuid(assocId) \o <<"-">> \o Uuid(memoryId)

\* const [source, target] = edge.split('-')
EdgeOf(key) ==
  LET parts == Split(key, "-")
  IN [source |-> parts[1], target |-> parts[2]]

DefaultDepth == 2

SampleImportance == 70

SampleLimit == 10

NodeContentLength == 50

NodeOf(memoryId, memory, includeContent) ==
  [id |-> memoryId,
   content |-> IF includeContent THEN Val(memory.content)
               ELSE Substring(Val(memory.content), 0, NodeContentLength) \o Ellipsis,
   type |-> memory.type,
   importance |-> memory.importance]

RECURSIVE ExploreAssociations(_, _, _, _, _, _, _, _)
\* acc: the store, the nodes in the order they were set and the edge keys in
\* the order they were added
RECURSIVE Explore(_, _, _, _, _, _)
Explore(acc, memoryId, currentDepth, depth, minImportance, includeContent) ==
  LET memory == QdrantGetMemory(acc.st, memoryId)
      read == [acc EXCEPT !.st = GetMemory(acc.st, memoryId)]
  IN IF currentDepth > depth THEN acc
     ELSE IF \E i \in 1..Len(acc.nodes) : acc.nodes[i].id = memoryId THEN acc
     ELSE IF ~Def(memory) THEN read
     ELSE IF /\ Def(minImportance) /\ Val(minImportance) /= 0
             /\ Def(Val(memory).importance)
             /\ Val(Val(memory).importance) < Val(minImportance)
     THEN read
     ELSE ExploreAssociations(
            [read EXCEPT !.nodes = Append(@, NodeOf(memoryId, Val(memory),
                                                    includeContent))],
            memoryId, Val(Val(memory).associations), 1,
            currentDepth, depth, minImportance, includeContent)

ExploreAssociations(acc, memoryId, associations, i, currentDepth, depth, minImportance, includeContent) ==
  IF i > Len(associations) THEN acc
  ELSE LET edgeKey == EdgeKey(memoryId, associations[i])
           added == IF Includes(acc.edges, edgeKey) THEN acc
                    ELSE [acc EXCEPT !.edges = Append(@, edgeKey)]
       IN ExploreAssociations(
            Explore(added, associations[i], currentDepth + 1, depth,
                    minImportance, includeContent),
            memoryId, associations, i + 1, currentDepth, depth,
            minImportance, includeContent)

RECURSIVE ExploreSeeds(_, _, _, _, _, _)
ExploreSeeds(acc, memories, i, depth, minImportance, includeContent) ==
  IF i > Len(memories) THEN acc
  ELSE ExploreSeeds(Explore(acc, Val(memories[i].id), 0, depth, minImportance,
                            includeContent),
                    memories, i + 1, depth, minImportance, includeContent)

\* a graph that gives up when a stored list names a record that is not stored
GetAssociationGraphStrict(s, centerMemoryId, depthGiven, minImportance, includeGiven, uuidOrder) ==
  Result(s, "notfound", None)

GetAssociationGraph(s, centerMemoryId, depthGiven, minImportance, includeGiven, uuidOrder) ==
  LET depth == IF Def(depthGiven) THEN Val(depthGiven) ELSE DefaultDepth
      includeContent == Def(includeGiven) /\ Val(includeGiven)
      important ==
        SearchMemories(s,
          [query |-> Some(<<>>), type |-> None,
           minImportance |-> Some(SampleImportance), others |-> FALSE,
           othersMatch |-> {}, limit |-> Some(SampleLimit),
           includeAssociations |-> FALSE, detailLevel |-> "full",
           similarityThreshold |-> None, reconstructChunks |-> FALSE],
          [id \in DOMAIN s |-> 0], uuidOrder)
      explored ==
        IF Def(centerMemoryId)
        THEN Explore([st |-> s, nodes |-> <<>>, edges |-> <<>>],
                     Val(centerMemoryId), 0, depth, minImportance, includeContent)
        ELSE ExploreSeeds([st |-> important.st, nodes |-> <<>>, edges |-> <<>>],
                          important.val.memories, 1, depth, minImportance,
                          includeContent)
  IN Result(explored.st, "none",
       [nodes |-> explored.nodes,
        edges |-> [i \in 1..Len(explored.edges) |-> EdgeOf(explored.edges[i])],
        stats |-> [totalNodes |-> Len(explored.nodes),
                   totalEdges |-> Len(explored.edges),
                   averageConnections |->
                     <<Len(explored.edges),
                       IF Len(explored.nodes) > 1 THEN Len(explored.nodes) ELSE 1>>]])

(* ---- the engine as a state machine ---- *)
Idle == [op |-> "init"]

\* the transport server as constructed: no session, and listening
NoSessions ==
  /\ transports = {}
  /\ clientMetadata = [sessionId \in {} |-> <<>>]
  /\ responses = {}
  /\ connecting = {}
  /\ listening = TRUE
  /\ nextSession = 1

NoRace ==
  /\ upc = [p \in {1, 2} |-> "idle"]
  /\ uread = [p \in {1, 2} |-> None]
  /\ uarg = [p \in {1, 2} |-> EmptyObject]
  /\ stale = {}
  /\ NoSessions

EmptyStore == [i \in {} |-> EmptyObject]

\* the bookkeeping of one completed call c with result r
Return(c, r) ==
  /\ store' = r.st
  /\ call' = c
  /\ ret' = [err |-> r.err, val |-> r.val]
  /\ pre' = store
  /\ UNCHANGED <<upc, uread, uarg, stale, sseVars>>

AccessCount(s, id) == Val(ReadPayload(s[id]).accessCount)

(* ---- inputs ---- *)
TextA == <<"a">>

TextB == <<"b">>

Blank == <<" ", "\n", "\t">>

LongText == [i \in 1..(PreviewLength + 1) |-> "a"]

TwoParagraphs == <<"a", "b", "\n", "\n", "c">>

Calm == [mood |-> "calm"]

ValidCreates ==
  {[content |-> Some(TextA), type |-> "semantic", context |-> None, importance |-> None],
   [content |-> Some(TextB), type |-> "episodic", context |-> Some(Calm),
    importance |-> Some(100)]}

CreateInputs ==
  ValidCreates \cup
  {[content |-> None, type |-> "semantic", context |-> None, importance |-> None],
   [content |-> Some(<<>>), type |-> "semantic", context |-> None, importance |-> None],
   [content |-> Some(Blank), type |-> "semantic", context |-> None,
    importance |-> Some(50)],
   [content |-> Some(TextA), type |-> "semantic", context |-> None,
    importance |-> Some(0 - 10)],
   [content |-> Some(TextA), type |-> "semantic", context |-> None,
    importance |-> Some(110)]}

\* the partial records of update: a key may be absent, or present and
\* undefined, as in the tool handler of index.ts
HandlerUpdates ==
  {[content |-> Some(TextB), importance |-> None, context |-> Some(Calm),
    metadata |-> None],
   [content |-> Some(TextB), importance |-> None, context |-> None,
    metadata |-> None],
   [content |-> None, importance |-> Some(90), context |-> None, metadata |-> None]}

PlainUpdates ==
  {[importance |-> Some(0)],
   [importance |-> Some(110)],
   [importance |-> Some(0 - 10)],
   [content |-> Some(<<>>)],
   [content |-> Some(Blank)],
   [content |-> Some(TextB)],
   [content |-> Some(Blank), importance |-> Some(110)]}

ChunkedInputs ==
  {[content |-> TwoParagraphs, type |-> "emotional", importance |-> None,
    options |-> [method |-> "paragraph", maxChunkSize |-> 1]],
   [content |-> TwoParagraphs, type |-> "semantic", importance |-> Some(110),
    options |-> [method |-> "paragraph", maxChunkSize |-> 1]],
   [content |-> LongText, type |-> "semantic", importance |-> None,
    options |-> [method |-> "paragraph", maxChunkSize |-> 0]],
   [content |-> TwoParagraphs, type |-> "semantic", importance |-> Some(0 - 10),
    options |-> [method |-> "paragraph", maxChunkSize |-> 0]]}

Strategies == {"merge_content", "summarize", "keep_most_important", "create_composite"}

Summaries == {<<"s">>}

(* ---- the calls, over the inputs of a specification ---- *)
\* last is the largest id the specification allocates
Create(last, inputs, full) ==
  /\ nextId <= last
  /\ \E in \in inputs :
       \E similar \in IF full
                      THEN SearchSimilar(store, SimilarLimit) \cup {<<nextId>>}
                      ELSE {<<>>} :
         LET r == CreateMemory(store, nextId, in.content, in.type, in.context,
                               in.importance, similar)
         IN /\ Return([op |-> "create", id |-> nextId, content |-> in.content,
                       importance |-> in.importance], r)
            /\ nextId' = IF r.err = "none" THEN nextId + 1 ELSE nextId
  /\ UNCHANGED prevCall

Update(ids, inputs) ==
  /\ \E id \in ids : \E updates \in inputs :
       LET r == UpdateMemory(store, id, updates)
       IN /\ Exists(r.st, id) => AccessCount(r.st, id) <= MaxAccess
          /\ Return([op |-> "update", id |-> id, updates |-> updates], r)
  /\ UNCHANGED <<nextId, prevCall>>

Delete(ids) ==
  /\ \E id \in ids :
       Return([op |-> "delete", id |-> id], DeleteMemory(store, id))
  /\ UNCHANGED <<nextId, prevCall>>

Read(ids) ==
  /\ \E id \in ids :
       /\ Exists(store, id) => AccessCount(store, id) < MaxAccess
       /\ Return([op |-> "get", id |-> id],
                 Result(GetMemory(store, id), "none", QdrantGetMemory(store, id)))
  /\ UNCHANGED <<nextId, prevCall>>

\* the ids a chunked create allocates: the parent and one per chunk
Allocated(s, first) == Cardinality({i \in DOMAIN s : i >= first})

CreateWithChunking(last) ==
  /\ \E in \in ChunkedInputs :
       LET r == CreateMemoryWithChunking(store, nextId, in.content, in.type, None,
                                         in.importance, in.options, "none",
                                         NoEmbeddings)
       IN /\ nextId + Len(ParagraphChunks(in.content)) <= last
          /\ Return([op |-> "createWithChunking", id |-> nextId,
                     content |-> Some(in.content), importance |-> in.importance], r)
          /\ nextId' = nextId + Allocated(r.st, nextId)
  /\ UNCHANGED prevCall

Consolidate(last, idLists) ==
  /\ nextId <= last
  /\ \E memoryIds \in idLists : \E strategy \in Strategies :
       \E keepOriginals \in BOOLEAN : \E summary \in Summaries :
         LET r == ConsolidateMemories(store, nextId, memoryIds, strategy,
                                      keepOriginals, summary, <<>>)
         IN /\ r.err = "validation" =>
                 \A id \in DOMAIN r.st : AccessCount(r.st, id) <= MaxAccess
            /\ Return([op |-> "consolidate", id |-> nextId, memoryIds |-> memoryIds,
                       strategy |-> strategy, keepOriginals |-> keepOriginals], r)
            /\ nextId' = IF Exists(r.st, nextId) THEN nextId + 1 ELSE nextId
  /\ UNCHANGED prevCall

InitEmpty ==
  /\ store = EmptyStore
  /\ nextId = 1
  /\ call = Idle
  /\ ret = [err |-> "none", val |-> None]
  /\ pre = EmptyStore
  /\ prevCall = Idle
  /\ NoRace

(* ---- create, get, update and delete of single records ---- *)
Init == InitEmpty

Next ==
  \/ Create(MaxRecords, CreateInputs, TRUE)
  \/ Update({1, MaxRecords + 1}, PlainUpdates)
  \/ Delete(1..(MaxRecords + 1))
  \/ Read({1, MaxRecords + 1})

Spec == Init /\ [][Next]_vars

(* ---- the record lifecycle with chunked creates and consolidation ---- *)
NextLife ==
  \/ Create(MaxIds, ValidCreates, FALSE)
  \/ Update({1, MaxIds + 1}, HandlerUpdates \cup {[importance |-> Some(110)]})
  \/ CreateWithChunking(MaxIds)
  \/ Consolidate(MaxIds, {<<1, 2>>, <<2, 1, MaxIds + 1>>, <<1, MaxIds + 1>>})

SpecLife == InitEmpty /\ [][NextLife]_vars

(* ---- chunked creates and their reconstruction ---- *)
\* the text of the i-th paragraph: "par" and two digits
Paragraph(i) == <<"p", "a", "r", ToString(i \div 10), ToString(i % 10)>>

\* n paragraphs separated by blank lines; for n = 0 only the separators
ParagraphText(n) ==
  IF n = 0 THEN <<"\n", "\n", "\n", "\n", "\n">>
  ELSE Join([i \in 1..n |-> Paragraph(i)], <<"\n", "\n">>)

Policies == {"none", "all", "oldest"}

\* chunked creates while at most MaxPre ids are in use
ChunkedCreate ==
  /\ nextId <= MaxPre + 1
  /\ \E n \in 0..MaxChunks : \E policy \in Policies :
       \E importance \in {None, Some(50)} :
         LET r == CreateMemoryWithChunking(store, nextId, ParagraphText(n),
                    "semantic", None, importance,
                    [method |-> "paragraph", maxChunkSize |-> 1], policy,
                    NoEmbeddings)
         IN /\ Return([op |-> "createWithChunking", id |-> nextId, n |-> n,
                       policy |-> policy, content |-> Some(ParagraphText(n)),
                       importance |-> importance], r)
            /\ nextId' = nextId + Allocated(r.st, nextId)
  /\ UNCHANGED prevCall

NextChunks == Create(MaxPre, ValidCreates, FALSE) \/ ChunkedCreate

SpecChunks == InitEmpty /\ [][NextChunks]_vars

(* ---- search and get over stores with chunked documents ---- *)
ChunkSizes == 0..MaxSearched

\* the store after createMemoryWithChunking of n >= 1 paragraphs in an empty
\* store when no search finds anything similar, written out record by record:
\* the parent lists the children its list has room for, child k lists the
\* parent and its neighbours, and every lookup and write of a connect has
\* counted as an access
\* paragraphs enough to fill the preview kept in the parent
PreviewParagraphs == PreviewLength \div Len(Paragraph(1))

LongDocumentStore(n) ==
  [id \in 1..(n + 1) |->
     Serialise(
       IF id = 1
       THEN Spread(NewMemory(ChunkedPrefix(n)
                             \o Substring(ParagraphText(Min(n, PreviewParagraphs)),
                                          0, PreviewLength)
                             \o Ellipsis,
                             "semantic",
                             Some([isParentChunk |-> TRUE, totalChunks |-> n]),
                             Some(ParentImportance)),
                   [associations |-> Some([k \in 1..Min(n, MaxAssociations) |-> k + 1]),
                    accessCount |-> Some(2 * n)])
       ELSE Spread(NewMemory(Paragraph(id - 1), "semantic",
                             Some([chunkIndex |-> id - 2, chunkOf |-> 1,
                                   totalChunks |-> n]),
                             Some(Min(100, CalculateImportance(Paragraph(id - 1),
                                                               "semantic")))),
                   [associations |->
                      Some(<<1>> \o (IF id > 2 THEN <<id - 1>> ELSE <<>>)
                                \o (IF id <= n THEN <<id + 1>> ELSE <<>>)),
                    accessCount |->
                      Some(2 + (IF id > 2 THEN 2 ELSE 0) + (IF id <= n THEN 2 ELSE 0))]))]

EpisodicStore ==
  UpsertMemory(EmptyStore, 1, NewMemory(TextB, "episodic", Some(Calm), Some(100)))

\* a chunked document of two paragraphs whose last chunk was deleted: the
\* parent and the first chunk still name it
TornDocumentStore ==
  DeleteMemory(CreateMemoryWithChunking(EmptyStore, 1, ParagraphText(2), "semantic",
                                        None, None,
                                        [method |-> "paragraph", maxChunkSize |-> 1],
                                        "none", NoEmbeddings).st,
               3).st

\* a chunked document of n paragraphs, created in an empty store or after
\* one other record, a document of more chunks than one listing returns, and
\* a document that lost a chunk
SearchStores ==
  {CreateMemoryWithChunking(earlier, Cardinality(DOMAIN earlier) + 1,
                            ParagraphText(n), "semantic", None, None,
                            [method |-> "paragraph", maxChunkSize |-> 1], "none",
                            NoEmbeddings).st :
     earlier \in {EmptyStore, EpisodicStore}, n \in ChunkSizes}
  \cup {LongDocumentStore(ScrollLimit + 1), TornDocumentStore}

InitSearch ==
  /\ store \in SearchStores
  /\ nextId = Cardinality(DOMAIN store) + 1
  /\ call = Idle
  /\ ret = [err |-> "none", val |-> None]
  /\ pre = store
  /\ prevCall = Idle
  /\ NoRace

Thresholds == {None, Some(0), Some(50), Some(100)}

Limits == {None, Some(0), Some(1), Some(2)}

\* similarities of the stored records to the query
Scorings(s) ==
  {[id \in DOMAIN s |-> 90],
   [id \in DOMAIN s |-> IF id = 1 THEN 90 ELSE 50],
   [id \in DOMAIN s |-> IF id % 2 = 0 THEN 80 ELSE 30]}

SearchParams ==
  [query : {None, Some(<<>>), Some(Blank), Some(TextA)},
   type : {None, Some("semantic")},
   minImportance : {None, Some(80)},
   others : BOOLEAN,
   othersMatch : {{1}},
   limit : Limits,
   includeAssociations : BOOLEAN,
   detailLevel : {"full", "compact"},
   similarityThreshold : Thresholds,
   reconstructChunks : BOOLEAN]

\* one search per behaviour; threshold and similarities only with a query;
\* the long document is searched without a filter and in full detail
Search ==
  /\ call.op = "init"
  /\ \E params \in SearchParams : \E scores \in Scorings(store) :
       \E uuidOrder \in {"same", "reverse"} :
         /\ Cardinality(DOMAIN store) > ScrollLimit =>
              /\ ~HasClauses(params)
              /\ ~params.includeAssociations
              /\ params.detailLevel = "full"
         /\ (~Truthy(params.query) \/ Trim(Val(params.query)) = <<>>) =>
              /\ params.similarityThreshold = None
              /\ \A id \in DOMAIN store : scores[id] = 90
         /\ Return([op |-> "search", params |-> params, scores |-> scores,
                    uuidOrder |-> uuidOrder],
                   SearchChunkedMemories(store, params, scores, uuidOrder))
  /\ UNCHANGED <<nextId, prevCall>>

GetOnce ==
  /\ call.op = "init"
  /\ \E id \in 1..nextId :
       Return([op |-> "get", id |-> id],
              Result(GetMemory(store, id), "none", QdrantGetMemory(store, id)))
  /\ UNCHANGED <<nextId, prevCall>>

NextSearch == Search \/ GetOnce

SpecSearch == InitSearch /\ [][NextSearch]_vars

(* ---- one source connected to more targets than its list can hold ---- *)
\* records 1..n as create stores them when the search finds nothing similar
BaseStore(n) ==
  [i \in 1..n |-> Serialise(NewMemory(TextA, "semantic", None, None))]

CapSource == 1

CapIds == 1 + NumPrefilled + NumTargets

\* the source after connect(source, t, false) for t = 2 .. NumPrefilled + 1
RECURSIVE Prefilled(_, _)
Prefilled(s, t) ==
  IF t > NumPrefilled + 1 THEN s
  ELSE Prefilled(ConnectMemories(s, CapSource, t, FALSE).st, t + 1)

InitCap ==
  /\ store = Prefilled(BaseStore(CapIds), 2)
  /\ nextId = CapIds + 1
  /\ call = Idle
  /\ ret = [err |-> "none", val |-> None]
  /\ pre = store
  /\ prevCall = Idle
  /\ NoRace

\* the targets are connected in the order of their ids
NextTarget == IF call.op = "connect" THEN call.targetId + 1 ELSE NumPrefilled + 2

Connect(sourceId, targetId, bidirectional) ==
  /\ Return([op |-> "connect", sourceId |-> sourceId, targetId |-> targetId,
             bidirectional |-> bidirectional],
            ConnectMemories(store, sourceId, targetId, bidirectional))
  /\ prevCall' = call
  /\ UNCHANGED nextId

ConnectFresh ==
  /\ NextTarget <= CapIds
  /\ \E bidirectional \in BOOLEAN : Connect(CapSource, NextTarget, bidirectional)

\* the same call once more
ConnectAgain ==
  /\ call.op = "connect"
  /\ prevCall /= call
  /\ Connect(call.sourceId, call.targetId, call.bidirectional)

NextCap == ConnectFresh \/ ConnectAgain

SpecCap == InitCap /\ [][NextCap]_vars

(* ---- properties of connect ---- *)
\* C3 as stated: repeatedly connecting one source record to more than 10
\* distinct targets leaves exactly 10 entries in the source's associations
\* list, and the entries kept are the 10 most recently connected targets
C3_KeepsTenMostRecent ==
  (call.op = "connect" /\ call.targetId - 1 > MaxAssociations) =>
    /\ Len(Assoc(store, CapSource)) = MaxAssociations
    /\ {Assoc(store, CapSource)[i] : i \in 1..Len(Assoc(store, CapSource))} =
         (call.targetId - MaxAssociations + 1)..call.targetId

\* C4 as stated: calling connect(X, Y, true) twice in a row leaves
\* X.associations containing Y exactly once and Y.associations containing X
\* exactly once, and the second call changes neither association list
C4_ConnectTwiceLinksOnce ==
  (call.op = "connect" /\ prevCall = call /\ call.bidirectional) =>
    /\ Count(Assoc(store, call.sourceId), call.targetId) = 1
    /\ Count(Assoc(store, call.targetId), call.sourceId) = 1
    /\ Assoc(store, call.sourceId) = Assoc(pre, call.sourceId)
    /\ Assoc(store, call.targetId) = Assoc(pre, call.targetId)

(* ---- path search over association graphs ---- *)
\* the directed edges a graph is drawn from, in the order they are connected
CandidateEdges ==
  <<<<1, 2>>, <<2, 3>>, <<3, 4>>, <<1, 3>>, <<3, 1>>, <<2, 4>>, <<4, 2>>>>

\* the store after connect(source, target, false) for the chosen edges
RECURSIVE Connected(_, _, _)
Connected(s, chosen, i) ==
  IF i > Len(CandidateEdges) THEN s
  ELSE Connected(IF i \in chosen
                 THEN ConnectMemories(s, CandidateEdges[i][1], CandidateEdges[i][2],
                                      FALSE).st
                 ELSE s,
                 chosen, i + 1)

InitGraph ==
  /\ \E chosen \in SUBSET (1..Len(CandidateEdges)) :
       store = Connected(BaseStore(GraphIds), chosen, 1)
  /\ nextId = GraphIds + 1
  /\ call = Idle
  /\ ret = [err |-> "none", val |-> None]
  /\ pre = store
  /\ prevCall = Idle
  /\ NoRace

\* one search per behaviour, on the graph as set up
FindPaths ==
  /\ call.op /= "findPaths"
  /\ \E startId \in 1..GraphIds : \E endId \in 1..GraphIds :
       \E maxDepth \in 0..MaxDepthArg :
         Return([op |-> "findPaths", startId |-> startId, endId |-> endId,
                 maxDepth |-> maxDepth],
                FindMemoryPaths(store, startId, endId, maxDepth))
  /\ UNCHANGED <<nextId, prevCall>>

\* a record deleted while other records still name it
DeleteNode ==
  /\ call.op \in {"init", "delete"}
  /\ GraphIds - Cardinality(DOMAIN store) < MaxDeleted
  /\ Delete(DOMAIN store)

NextPaths == FindPaths \/ DeleteNode

SpecPaths == InitGraph /\ [][NextPaths]_vars

(* ---- connect and removeAssociation over association graphs ---- *)
\* one call per behaviour, on the graph as set up; an id may name no record
ConnectOnce ==
  /\ call.op \in {"init", "delete"}
  /\ \E sourceId \in 1..(GraphIds + 1) : \E targetId \in 1..(GraphIds + 1) :
       \E bidirectional \in BOOLEAN : Connect(sourceId, targetId, bidirectional)

RemoveOnce ==
  /\ call.op \in {"init", "delete"}
  /\ \E sourceId \in 1..(GraphIds + 1) : \E targetId \in 1..(GraphIds + 1) :
       \E bidirectional \in BOOLEAN :
         Return([op |-> "removeAssociation", sourceId |-> sourceId,
                 targetId |-> targetId, bidirectional |-> bidirectional],
                RemoveAssociation(store, sourceId, targetId, bidirectional))
  /\ UNCHANGED <<nextId, prevCall>>

NextAssoc == DeleteNode \/ ConnectOnce \/ RemoveOnce

SpecAssoc == InitGraph /\ [][NextAssoc]_vars

(* ---- association graphs over records of differing importance ---- *)
\* records 1..n as create stores them when it is given their importance
ImportanceStore(n, low) ==
  [i \in 1..n |->
     Serialise(NewMemory(TextA, "semantic", None,
                         Some(IF i \in low THEN 30 ELSE 80)))]

\* the records of low importance
LowSets == {{}, {1}, {2}, {3}}

InitImportanceGraph ==
  /\ \E chosen \in SUBSET (1..Len(CandidateEdges)) : \E low \in LowSets :
       store = Connected(ImportanceStore(GraphIds, low), chosen, 1)
  /\ nextId = GraphIds + 1
  /\ call = Idle
  /\ ret = [err |-> "none", val |-> None]
  /\ pre = store
  /\ prevCall = Idle
  /\ NoRace

GraphDepths == {None, Some(0), Some(1)}

GraphImportances == {None, Some(50)}

\* one graph per behaviour, on the records as set up; the center may name no
\* record or be left out
GraphOnce ==
  /\ call.op \in {"init", "delete"}
  /\ \E centerMemoryId \in {None} \cup {Some(id) : id \in 1..(GraphIds + 1)} :
       \E depth \in GraphDepths : \E minImportance \in GraphImportances :
         \E includeContent \in {None, Some(TRUE)} :
           \E uuidOrder \in {"same", "reverse"} :
             /\ Def(centerMemoryId) => uuidOrder = "same"
             /\ Return([op |-> "graph", centerMemoryId |-> centerMemoryId,
                        depth |-> depth, minImportance |-> minImportance,
                        includeContent |-> includeContent, uuidOrder |-> uuidOrder],
                       GetAssociationGraph(store, centerMemoryId, depth,
                                           minImportance, includeContent, uuidOrder))
  /\ UNCHANGED <<nextId, prevCall>>

NextGraph == DeleteNode \/ GraphOnce

SpecGraph == InitImportanceGraph /\ [][NextGraph]_vars

(* ---- consolidation of more records than one list holds ---- *)
InitMany ==
  /\ store = BaseStore(MaxOriginals)
  /\ nextId = MaxOriginals + 1
  /\ call = Idle
  /\ ret = [err |-> "none", val |-> None]
  /\ pre = store
  /\ prevCall = Idle
  /\ NoRace

\* the answers of the nearest-neighbour search of the create: nothing,
\* originals, or the new record and records that are not consolidated
SimilarToConsolidated ==
  {<<>>, <<1, 2, 3>>,
   <<MaxOriginals + 1, MaxOriginals, MaxOriginals - 1, MaxOriginals - 2>>}

\* one consolidation per behaviour, of the records 1..k
ConsolidateMany ==
  /\ call.op = "init"
  /\ \E k \in 2..MaxOriginals : \E strategy \in Strategies :
       \E keepOriginals \in BOOLEAN : \E summary \in Summaries :
         \E similar \in SimilarToConsolidated :
           /\ Return([op |-> "consolidate", id |-> nextId,
                      memoryIds |-> [i \in 1..k |-> i], strategy |-> strategy,
                      keepOriginals |-> keepOriginals, summary |-> summary,
                      similar |-> similar],
                     ConsolidateMemories(store, nextId, [i \in 1..k |-> i], strategy,
                                         keepOriginals, summary, similar))
           /\ nextId' = nextId + 1
  /\ UNCHANGED prevCall

NextMany == ConsolidateMany

SpecMany == InitMany /\ [][NextMany]_vars

(* ---- the chunking methods on their own ---- *)
\* a sentence of 1 token and a sentence of 2
Sentences == {<<"A", "a", ".">>, <<"B", "b", "b", "b", "b", ".">>}

RECURSIVE SentenceLists(_)
SentenceLists(n) ==
  IF n = 0 THEN {<<>>}
  ELSE SentenceLists(n - 1)
       \cup {Append(list, x) : list \in SentenceLists(n - 1), x \in Sentences}

\* up to MaxSentences sentences separated by a blank or by a blank line, and
\* texts without a sentence: nothing, blanks of an estimate of 1 token and of
\* 2, and a text that starts no word with a capital
ChunkedTexts ==
  {Join(list, sep) : list \in SentenceLists(MaxSentences),
                     sep \in {<<" ">>, <<"\n", "\n">>}}
  \cup {<<" ", " ">>, <<" ", "\n", "\n", "\t", " ">>,
        <<"a", "a", ".", " ", "b", ".">>}

ChunkingOptions ==
  [method : {"semantic", "sentence", "paragraph", "fixed"},
   maxChunkSize : 0..3,
   overlapSize : {0, 1, 5, 60},
   semanticThreshold : {0, 90}]

\* the provider's answers for the sentences of a text: each similarity above
\* or below the thresholds
Similarities(n) == [1..n -> {30, 80}]

ProviderAnswers(text, options) ==
  IF options.method = "semantic"
  THEN [similarity : Similarities(Len(SplitIntoSentences(text))), density : {80}]
  ELSE {NoEmbeddings}

ChunkTextOnce ==
  /\ call.op = "init"
  /\ \E text \in ChunkedTexts : \E options \in ChunkingOptions :
       \E embeddings \in ProviderAnswers(text, options) :
         /\ options.method /= "semantic" => options.semanticThreshold = 0
         /\ LET chunked == ChunkText(text, options, embeddings)
            IN Return([op |-> "chunkText", text |-> text, options |-> options,
                       embeddings |-> embeddings],
                      Result(store, IF chunked.ended THEN "none" ELSE "hang",
                             chunked.chunks))
  /\ UNCHANGED <<nextId, prevCall>>

NextChunking == ChunkTextOnce

SpecChunking == InitEmpty /\ [][NextChunking]_vars

(* ---- the loop of fixedChunk, turn by turn ---- *)
\* maxChunkSize above 0, small and large enough for a defaulted overlap above
\* 0; overlapSize absent (0) or given
FixedOptions ==
  [method : {"fixed"}, maxChunkSize : {1, 2, 3, 10}, overlapSize : {0, 1}]

\* ret.val holds startIndex, the chunks pushed, of which the model keeps the
\* first ones, one more than the text has characters, and whether the number
\* of turns taken is odd
FixedChunkStart ==
  /\ call.op = "init"
  /\ \E text \in ChunkedTexts \ {<<>>} : \E options \in FixedOptions :
       /\ call' = [op |-> "fixedChunk", text |-> text, options |-> options]
       /\ ret' = [err |-> "running", val |-> [startIndex |-> 0, chunks |-> <<>>, odd |-> FALSE]]
  /\ UNCHANGED <<store, nextId, pre, prevCall, upc, uread, uarg, stale, sseVars>>

\* one turn of the while loop
FixedChunkTurn ==
  /\ call.op = "fixedChunk"
  /\ ret.err = "running"
  /\ ret.val.startIndex < Len(call.text)
  /\ ret' = [err |-> "running",
             val |-> [startIndex |->
                        FixedNextStart(call.text, FixedMaxSize(call.options),
                                       FixedOverlapSize(call.options),
                                       ret.val.startIndex),
                      chunks |->
                        IF Len(ret.val.chunks) <= Len(call.text)
                        THEN Append(ret.val.chunks,
                                    FixedWindow(call.text, FixedMaxSize(call.options),
                                                ret.val.startIndex))
                        ELSE ret.val.chunks,
                      odd |-> ~ret.val.odd]]
  /\ UNCHANGED <<store, nextId, call, pre, prevCall, upc, uread, uarg, stale, sseVars>>

\* the loop is left and the chunks are returned
FixedChunkReturn ==
  /\ call.op = "fixedChunk"
  /\ ret.err = "running"
  /\ ~(ret.val.startIndex < Len(call.text))
  /\ ret' = [ret EXCEPT !.err = "none"]
  /\ UNCHANGED <<store, nextId, call, pre, prevCall, upc, uread, uarg, stale, sseVars>>

NextFixed == FixedChunkStart \/ FixedChunkTurn \/ FixedChunkReturn

SpecFixed == InitEmpty /\ [][NextFixed]_vars

\* a call that was made runs on: a turn of the loop that is due is taken
SpecFixedFair ==
  /\ SpecFixed
  /\ WF_vars(FixedChunkStart)
  /\ WF_vars(FixedChunkTurn)
  /\ WF_vars(FixedChunkReturn)

(* ---- chunked creates with each chunking method ---- *)
\* one chunked create per behaviour, in an empty store
ChunkedCreateOnce ==
  /\ call.op = "init"
  /\ \E text \in ChunkedTexts : \E options \in ChunkingOptions :
       \E embeddings \in ProviderAnswers(text, options) :
         /\ options.method /= "semantic" => options.semanticThreshold = 0
         /\ LET r == CreateMemoryWithChunking(store, nextId, text, "semantic", None,
                                              None, options, "none", embeddings)
            IN /\ Return([op |-> "createWithChunking", id |-> nextId,
                          content |-> Some(text), importance |-> None,
                          options |-> options, embeddings |-> embeddings], r)
               /\ nextId' = nextId + Allocated(r.st, nextId)
  /\ UNCHANGED prevCall

NextMethods == ChunkedCreateOnce

SpecMethods == InitEmpty /\ [][NextMethods]_vars

(* ---- a create whose search finds records with short and long lists ---- *)
\* one-way connects from sourceId to each of targets
Linked(s, sourceId, targets) == LinkOriginals(Result(s, "none", None), sourceId, targets, 1).st

\* record 2 lists 4 ids, record 3 lists 5 and record 4 lists 6; the others none
NeighbourStore ==
  Linked(Linked(Linked(BaseStore(MaxNeighbours), 2, <<3, 4, 5, 6>>),
                3, <<1, 2, 4, 5, 6>>),
         4, <<1, 2, 3, 5, 6, 7>>)

InitNeighbours ==
  /\ store = NeighbourStore
  /\ nextId = MaxNeighbours + 1
  /\ call = Idle
  /\ ret = [err |-> "none", val |-> None]
  /\ pre = store
  /\ prevCall = Idle
  /\ NoRace

\* one create per behaviour; the search runs after the record is stored, so
\* its answer may hold the new record itself
CreateOnce ==
  /\ call.op = "init"
  /\ \E in \in ValidCreates :
       \E similar \in Arrangements(DOMAIN store \cup {nextId}, SimilarLimit) :
         Return([op |-> "create", id |-> nextId, content |-> in.content,
                 importance |-> in.importance],
                CreateMemory(store, nextId, in.content, in.type, in.context,
                             in.importance, similar))
  /\ nextId' = nextId + 1
  /\ UNCHANGED prevCall

NextNeighbours == CreateOnce

SpecNeighbours == InitNeighbours /\ [][NextNeighbours]_vars

(* ---- paths and graphs over records that name deleted records ---- *)
FindPathsOnce ==
  /\ call.op \in {"init", "delete"}
  /\ FindPaths

NextDangling == DeleteNode \/ FindPathsOnce \/ GraphOnce

SpecDangling == InitGraph /\ [][NextDangling]_vars

\* a call that names a record that is not stored
NamesMissing == ~Exists(pre, call.sourceId) \/ ~Exists(pre, call.targetId)

\* the same records are stored, with the same association lists
SameAssociations ==
  /\ DOMAIN store = DOMAIN pre
  /\ \A id \in DOMAIN pre : Assoc(store, id) = Assoc(pre, id)

ConnectMissingRaises ==
  (call.op = "connect" /\ NamesMissing) =>
    ret.err = "notfound" /\ SameAssociations

\* C11 as stated: connect raises a not-found error and changes no association
\* list when the source or the target record is missing, whereas
\* removeAssociation with a missing source or target raises nothing and
\* changes no association list
C11_MissingRecordChangesNoList ==
  /\ ConnectMissingRaises
  /\ (call.op = "removeAssociation" /\ NamesMissing) =>
       ret.err = "none" /\ SameAssociations

\* C11, amended: connect raises a not-found error and changes no association
\* list when the source or the target record is missing; removeAssociation
\* with a missing source or target raises nothing and still strips the other
\* id from the list of whichever of the two records exists (the target's list
\* only when bidirectional), leaving every other list unchanged
C11_MissingRecordStripsDangling ==
  /\ ConnectMissingRaises
  /\ (call.op = "removeAssociation" /\ NamesMissing) =>
       /\ ret.err = "none"
       /\ DOMAIN store = DOMAIN pre
       /\ \A id \in DOMAIN pre :
            Assoc(store, id) =
              IF id = call.sourceId THEN Filter(Assoc(pre, id), call.targetId)
              ELSE IF id = call.targetId /\ call.bidirectional
              THEN Filter(Assoc(pre, id), call.sourceId)
              ELSE Assoc(pre, id)

\* removeAssociation named a deleted target and the source lost its dangling id
C11_Witness ==
  /\ call.op = "removeAssociation"
  /\ Exists(pre, call.sourceId)
  /\ ~Exists(pre, call.targetId)
  /\ Includes(Assoc(pre, call.sourceId), call.targetId)
  /\ ~Includes(Assoc(store, call.sourceId), call.targetId)
  /\ ret.err = "none"

(* ---- bulk delete over association graphs ---- *)
\* lists of distinct ids, one of them never stored, and a list naming one id twice
BulkIdLists == Arrangements(1..(GraphIds + 1), MaxBulk) \cup {<<2, 2>>}

\* one bulk delete per behaviour, on the graph as set up; the store may fail
\* during the cleanup pass, at the batch delete, and at any single delete
BulkDelete ==
  /\ call.op = "init"
  /\ \E ids \in BulkIdLists : \E cleanupFailsAt \in 0..Len(ids) :
       \E batchFails \in BOOLEAN : \E failing \in SUBSET (1..Len(ids)) :
         /\ cleanupFailsAt > 0 => ~batchFails
         /\ ~batchFails => failing = {}
         /\ batchFails => Len(ids) > 0
         /\ Return([op |-> "bulkDelete", ids |-> ids,
                    cleanupFailsAt |-> cleanupFailsAt, batchFails |-> batchFails,
                    failing |-> failing],
                   DeleteMemories(store, ids, cleanupFailsAt, batchFails, failing))
  /\ UNCHANGED <<nextId, prevCall>>

NextBulk == BulkDelete

SpecBulk == InitGraph /\ [][NextBulk]_vars

\* the ids of a bulk delete that are gone from the store afterwards
Gone == {call.ids[i] : i \in 1..Len(call.ids)} \ DOMAIN store

\* C7 as stated: after bulkDelete(ids) completes, no remaining record's
\* associations list contains any of the deleted ids
C7_NoReferenceToDeleted ==
  (call.op = "bulkDelete" /\ ret.err = "none") =>
    \A r \in DOMAIN store : \A d \in Gone : ~Includes(Assoc(store, r), d)

\* the i-th smallest position of a set of positions
Nth(positions, i) ==
  CHOOSE n \in positions : Cardinality({m \in positions : m < n}) = i - 1

RaceTarget == 1

\* patches of different fields, as in the concurrency test
RaceUpdates ==
  {[importance |-> Some(90)],
   [metadata |-> Some([update1 |-> TRUE])],
   [context |-> Some([mood |-> "concurrent-testing"])],
   [content |-> Some(TextB)]}

InitRace ==
  /\ store \in {BaseStore(RaceTarget),
                UpsertMemory(EmptyStore, RaceTarget,
                             NewMemory(TextA, "episodic", Some(Calm), Some(100)))}
  /\ nextId = RaceTarget + 1
  /\ call = Idle
  /\ ret = [err |-> "none", val |-> None]
  /\ pre = store
  /\ prevCall = Idle
  /\ NoRace

Other(p) == 3 - p

\* updateMemory from its lookup of the record to the merge of the patch
UpdateStart(p) ==
  /\ upc[p] = "idle"
  /\ \E updates \in RaceUpdates :
       /\ upc[Other(p)] /= "idle" => DOMAIN updates /= DOMAIN uarg[Other(p)]
       /\ uarg' = [uarg EXCEPT ![p] = updates]
       /\ uread' = [uread EXCEPT ![p] = [first |-> QdrantGetMemory(store, RaceTarget),
                                        last |-> QdrantGetMemory(store, RaceTarget)]]
       /\ upc' = [upc EXCEPT ![p] = IF Truthy(Get(updates, "content"))
                                    THEN "upsert" ELSE "reread"]
  /\ UNCHANGED <<store, nextId, call, ret, pre, prevCall, stale, sseVars>>

\* updateMemoryMetadata reads the record again before it merges
UpdateReread(p) ==
  /\ upc[p] = "reread"
  /\ uread' = [uread EXCEPT ![p].last = QdrantGetMemory(store, RaceTarget)]
  /\ upc' = [upc EXCEPT ![p] = "write"]
  /\ UNCHANGED <<store, nextId, call, ret, pre, prevCall, uarg, stale, sseVars>>

\* the write of either branch, from the record as this call read it; the
\* other call, if it has read and not yet written, now holds an old record
UpdateWrite(p) ==
  /\ upc[p] \in {"write", "upsert"}
  /\ store' = IF upc[p] = "upsert"
              THEN UpsertMemory(store, RaceTarget,
                                Spread(Val(uread[p].first), uarg[p]))
              ELSE SetPayload(store, RaceTarget,
                              MetadataPayload(Val(uread[p].last), uarg[p]))
  /\ upc' = [upc EXCEPT ![p] = "done"]
  /\ stale' = stale \cup {q \in {Other(p)} : upc[q] \in {"write", "upsert"}}
  /\ call' = [op |-> "update", id |-> RaceTarget, updates |-> uarg[p], by |-> p]
  /\ ret' = [err |-> "none", val |-> Some(Spread(Val(uread[p].first), uarg[p]))]
  /\ pre' = store
  /\ UNCHANGED <<nextId, prevCall, uread, uarg, sseVars>>

NextRace == \E p \in {1, 2} : UpdateStart(p) \/ UpdateReread(p) \/ UpdateWrite(p)

SpecRace == InitRace /\ [][NextRace]_vars

\* the stored record carries the fields of a patch
Reflects(s, updates) ==
  \A k \in DOMAIN updates : ReadPayload(s[RaceTarget])[k] = updates[k]

BothDone == \A p \in {1, 2} : upc[p] = "done"

\* C6: two updates of one record that patch different fields can interleave
\* (both read, then both write the merged payload) so that the stored record
\* reflects only one of the two changes; nothing in the engine detects or
\* prevents this, and the same two updates run one after the other keep both
\* changes.  As a state property: once both calls have returned, the change of
\* the call that wrote last is stored, and the change of the call that wrote
\* first is stored exactly when the last writer read the record after that
\* write
C6_InterleavedUpdatesLoseAWrite ==
  BothDone =>
    /\ Reflects(store, uarg[call.by])
    /\ Reflects(store, uarg[Other(call.by)]) <=> call.by \notin stale

\* both calls have returned and only the last writer's change is stored
C6_Witness ==
  /\ BothDone
  /\ call.by \in stale
  /\ Reflects(store, uarg[call.by])
  /\ ~Reflects(store, uarg[Other(call.by)])

(* ---- properties of path search ---- *)
\* the simple directed paths from startId to endId of at most maxDepth edges:
\* lists of distinct ids in which every id but the last is a stored record
\* whose association list names the next id
SimplePaths(s, startId, endId, maxDepth) ==
  {p \in Arrangements(1..GraphIds, maxDepth + 1) :
     /\ p /= <<>>
     /\ p[1] = startId
     /\ p[Len(p)] = endId
     /\ \A i \in 1..(Len(p) - 1) :
          Exists(s, p[i]) /\ Includes(Assoc(s, p[i]), p[i + 1])}

IsChain(s) ==
  /\ DOMAIN s = 1..GraphIds
  /\ Assoc(s, 1) = <<2>>
  /\ Assoc(s, 2) = <<3>>
  /\ Assoc(s, 3) = <<4>>
  /\ Assoc(s, 4) = <<>>

\* C5: findPaths(start, end, maxDepth) returns exactly the simple directed
\* paths from start to end that follow only outgoing association lists and have
\* at most maxDepth edges, each such path exactly once; for the chain
\* A->B->C->D it returns no path with maxDepth=2 and exactly the one path
\* [A,B,C,D] with maxDepth=3
C5_FindPathsEnumeratesSimplePaths ==
  call.op = "findPaths" =>
    /\ {ret.val[i] : i \in 1..Len(ret.val)}
         = SimplePaths(pre, call.startId, call.endId, call.maxDepth)
    /\ \A i, j \in 1..Len(ret.val) : ret.val[i] = ret.val[j] => i = j
    /\ (IsChain(pre) /\ call.startId = 1 /\ call.endId = 4) =>
         /\ call.maxDepth = 2 => ret.val = <<>>
         /\ call.maxDepth = 3 => ret.val = <<<<1, 2, 3, 4>>>>

C5_Witness ==
  /\ call.op = "findPaths"
  /\ IsChain(pre)
  /\ call.startId = 1
  /\ call.endId = 4
  /\ call.maxDepth = 3
  /\ ret.val = <<<<1, 2, 3, 4>>>>

(* ---- properties of single-record calls ---- *)
CreateWithoutContent ==
  /\ call.op = "create"
  /\ (~Def(call.content) \/ Trim(Val(call.content)) = <<>>)

UpdateWithBlankContent ==
  /\ call.op = "update"
  /\ Def(Get(call.updates, "content"))
  /\ Trim(Val(Get(call.updates, "content"))) = <<>>

C9_DeleteRemovesOnlyThatRecord ==
  call.op = "delete" =>
    /\ QdrantGetMemory(store, call.id) = None
    /\ GetMemory(store, call.id) = store
    /\ DOMAIN store = (DOMAIN pre) \ {call.id}
    /\ \A other \in DOMAIN store :
         /\ store[other] = pre[other]
         /\ Includes(Assoc(pre, other), call.id)
              => Includes(Assoc(store, other), call.id)

C9_Witness ==
  /\ call.op = "delete"
  /\ Exists(pre, call.id)
  /\ \E other \in DOMAIN store : Includes(Assoc(store, other), call.id)

LongDocumentStoreIsCreated ==
  (/\ call.op = "createWithChunking"
   /\ pre = EmptyStore
   /\ call.policy = "none"
   /\ call.importance = None
   /\ call.n >= 1) =>
    store = LongDocumentStore(call.n)

(* ---- properties of chunked creates ---- *)
\* the parent and the children a chunked create returned
Parent == ret.val[1]

Child(i) == ret.val[i + 1]

NumChildren == Len(ret.val) - 1

ChunkedReturned ==
  /\ call.op = "createWithChunking"
  /\ ret.err = "none"
  /\ NumChildren >= 1

ChildrenLinked ==
  /\ \A i \in 1..NumChildren : Includes(Assoc(store, Child(i)), Parent)
  /\ \A i \in 1..(NumChildren - 1) :
       /\ Includes(Assoc(store, Child(i)), Child(i + 1))
       /\ Includes(Assoc(store, Child(i + 1)), Child(i))

ParentListsAll == \A i \in 1..NumChildren : Includes(Assoc(store, Parent), Child(i))

Returned == ret.val.memories

ReturnedId(i) == Val(Returned[i].id)

NoQuery == ~Truthy(call.params.query) \/ Trim(Val(call.params.query)) = <<>>

CallFilter ==
  [type |-> call.params.type, minImportance |-> call.params.minImportance,
   others |-> call.params.others, othersMatch |-> call.params.othersMatch]

\* the limit in force: the one given, or the default when none or 0 is given
CallLimit ==
  IF Def(call.params.limit) /\ Val(call.params.limit) /= 0
  THEN Val(call.params.limit) ELSE DefaultLimit

Kids(s, parentId) == {id \in DOMAIN s : ChunkOf(s, id) = Some(parentId)}

\* the contents of the children in the order of chunkIndex, joined by a blank line
ChildrenText(s, parentId) ==
  Join([k \in 1..Cardinality(Kids(s, parentId)) |->
          Val(ReadPayload(s[CHOOSE id \in Kids(s, parentId) :
                              ChunkIndex(s, id) = k - 1]).content)],
       <<"\n", "\n">>)

\* C15 as stated: for a parent created by createWithChunking with N children,
\* a search with reconstructChunks=true and full detail that returns the
\* parent yields for it a record whose content is exactly the contents of all
\* N children, ordered by chunkIndex 0..N-1 and joined by a blank line, tagged
\* metadata.reconstructed = true
C15_ReconstructionRoundTrip ==
  (/\ call.op = "search"
   /\ call.params.reconstructChunks
   /\ call.params.detailLevel = "full") =>
    \A i \in 1..Len(Returned) :
      (IsParentChunk(Returned[i]) /\ Kids(pre, ReturnedId(i)) /= {}) =>
        /\ Returned[i].content = Some(ChildrenText(pre, ReturnedId(i)))
        /\ "reconstructed" \in DOMAIN Val(Returned[i].metadata)
        /\ Val(Returned[i].metadata).reconstructed

QuerylessNeverEmbeds ==
  /\ ret.val.embedCalls = 0
  /\ ~HasClauses(CallFilter) => (Returned = <<>> /\ ret.val.storeCalls = 0)

\* C16 as stated: search with an empty or whitespace-only query never calls
\* the embedding provider: when at least one of type, minImportance,
\* emotionalRange or dateRange is given it returns at most limit records taken
\* from a filter-only listing, and when none is given it returns an empty list
\* without querying the store
C16_QuerylessListsAtMostLimit ==
  (call.op = "search" /\ NoQuery) =>
    /\ QuerylessNeverEmbeds
    /\ HasClauses(CallFilter) =>
         /\ Len(Returned) <= (IF Def(call.params.limit) THEN Val(call.params.limit)
                               ELSE DefaultLimit)
         /\ \A i \in 1..Len(Returned) : Matches(pre, ReturnedId(i), CallFilter)

\* C16, amended: search with an empty or whitespace-only query never calls
\* the embedding provider; when no filter is given it returns an empty list
\* without querying the store; when a filter is given it takes at most limit
\* records (10 when limit is absent or 0) from a filter-only listing, and with
\* includeAssociations it appends to them records that the listed records
\* associate, so only without includeAssociations is the result within the
\* limit and the filter
C16_QuerylessListing ==
  (call.op = "search" /\ NoQuery) =>
    /\ QuerylessNeverEmbeds
    /\ HasClauses(CallFilter) =>
         /\ \A i \in 1..Len(Returned) :
              \/ Matches(pre, ReturnedId(i), CallFilter)
              \/ /\ call.params.includeAssociations
                 /\ \E id \in DOMAIN pre :
                      /\ Matches(pre, id, CallFilter)
                      /\ Includes(Assoc(pre, id), ReturnedId(i))
         /\ ~call.params.includeAssociations => Len(Returned) <= CallLimit

\* a filter-only listing cut at the limit
C16_Witness ==
  /\ call.op = "search"
  /\ NoQuery
  /\ HasClauses(CallFilter)
  /\ ~call.params.includeAssociations
  /\ Len(Returned) = CallLimit
  /\ Cardinality({id \in DOMAIN pre : Matches(pre, id, CallFilter)}) > CallLimit
  /\ ret.val.embedCalls = 0

UsedThreshold(threshold) ==
  IF Def(threshold) THEN Val(threshold) ELSE ConfigSimilarityThreshold

\* the number of results of the call's search had it used another threshold
CountAt(threshold) ==
  Len(SearchSimilarWith(pre, call.scores, CallLimit, CallFilter, threshold))

PlainSimilaritySearch ==
  /\ call.op = "search"
  /\ ~NoQuery
  /\ ~call.params.includeAssociations
  /\ ~call.params.reconstructChunks

\* C17: for a fixed query, fixed limit and fixed corpus of scored records,
\* the number of results of a similarity search is non-increasing in the
\* similarity threshold: for T1 < T2 the result count at T1 is >= the count
\* at T2, and every result has score >= the threshold used and the count
\* never exceeds limit
C17_ThresholdMonotone ==
  PlainSimilaritySearch =>
    /\ Len(Returned) = CountAt(call.params.similarityThreshold)
    /\ Len(Returned) <= CallLimit
    /\ \A i \in 1..Len(Returned) :
         call.scores[ReturnedId(i)] >= UsedThreshold(call.params.similarityThreshold)
    /\ \A t1, t2 \in Thresholds :
         UsedThreshold(t1) < UsedThreshold(t2) => CountAt(t1) >= CountAt(t2)

\* a search that finds records which a higher threshold would leave out
C17_Witness ==
  /\ PlainSimilaritySearch
  /\ Len(Returned) > 0
  /\ \E t \in Thresholds :
       /\ UsedThreshold(t) > UsedThreshold(call.params.similarityThreshold)
       /\ CountAt(t) < Len(Returned)
       /\ CountAt(t) > 0

\* C18 as stated: every record returned by search (including records
\* appended because of includeAssociations) or by get has its stored
\* accessCount increased and its lastAccessed refreshed by that call
C18_ReturnedRecordsAreBumped ==
  /\ call.op = "search" =>
       \A i \in 1..Len(Returned) :
         AccessCount(store, ReturnedId(i)) > AccessCount(pre, ReturnedId(i))
  /\ (call.op = "get" /\ Def(ret.val)) =>
       AccessCount(store, call.id) > AccessCount(pre, call.id)

(* ---- properties of consolidate ---- *)
\* the ids of a consolidate call that named a stored record when it was made
Existing == SelectSeq(call.memoryIds, LAMBDA id : Exists(pre, id))

\* C12 as stated: consolidate on an id list that contains at least 2 existing
\* records plus some ids that do not exist silently drops the missing ids and
\* completes successfully, returning the consolidated record; when fewer than
\* 2 of the ids exist it raises an error and neither creates nor deletes any
\* record
C12_MissingIdsDropped ==
  call.op = "consolidate" =>
    /\ (Len(Existing) >= 2 /\ Len(Existing) < Len(call.memoryIds)) =>
         /\ ret.err = "none"
         /\ Def(ret.val)
         /\ Exists(store, call.id)
    /\ Len(Existing) < 2 =>
         /\ ret.err /= "none"
         /\ DOMAIN store = DOMAIN pre

\* C13: consolidate with strategy keep_most_important returns a record whose
\* content and importance equal those of the input record with the highest
\* importance, and with keepOriginals=false every input id is absent from the
\* store afterwards
C13_KeepMostImportant ==
  (/\ call.op = "consolidate"
   /\ call.strategy = "keep_most_important"
   /\ Len(Existing) = Len(call.memoryIds)
   /\ Len(Existing) >= 2) =>
    /\ ret.err = "none"
    /\ \E id \in DOMAIN pre :
         /\ Includes(call.memoryIds, id)
         /\ \A other \in DOMAIN pre :
              Includes(call.memoryIds, other) =>
                /\ Def(ReadPayload(pre[other]).importance)
                /\ Val(ReadPayload(pre[other]).importance)
                     <= Val(ReadPayload(pre[id]).importance)
         /\ Val(ret.val).content = ReadPayload(pre[id]).content
         /\ Val(ret.val).importance = ReadPayload(pre[id]).importance
         /\ ReadPayload(store[call.id]).content = ReadPayload(pre[id]).content
         /\ ReadPayload(store[call.id]).importance = ReadPayload(pre[id]).importance
    /\ ~call.keepOriginals =>
         \A i \in 1..Len(call.memoryIds) : ~Exists(store, call.memoryIds[i])

\* C1 as stated (its invariant): after any sequence of create,
\* createWithChunking, update and consolidate calls, every stored record has
\* 0 <= importance <= 1
C1_ImportanceInRange ==
  \A id \in DOMAIN store :
    LET importance == ReadPayload(store[id]).importance
    IN Def(importance) /\ 0 <= Val(importance) /\ Val(importance) <= 100

(* ---- properties of the association graph ---- *)
GraphNodes == ret.val.nodes

GraphEdges == ret.val.edges

GraphNodeIds == {GraphNodes[i].id : i \in 1..Len(GraphNodes)}

CallDepth == IF Def(call.depth) THEN Val(call.depth) ELSE DefaultDepth

\* the stored records that satisfy the importance bound
Admitted(s, minImportance) ==
  {id \in DOMAIN s :
     (Def(minImportance) /\ Val(minImportance) /= 0) =>
       /\ Def(ReadPayload(s[id]).importance)
       /\ Val(ReadPayload(s[id]).importance) >= Val(minImportance)}

\* the admitted records within so many outgoing hops of the records in from,
\* along admitted records
RECURSIVE WithinHops(_, _, _, _)
WithinHops(s, from, hops, admitted) ==
  IF hops = 0 THEN from \cap admitted
  ELSE LET near == WithinHops(s, from, hops - 1, admitted)
       IN near \cup {id \in admitted : \E a \in near : Includes(Assoc(s, a), id)}

\* C19 as stated: associationGraph(center, depth, minImportance) returns as
\* nodes exactly the existing records with importance >= minImportance that
\* can be reached from center through at most depth outgoing-association hops
\* along records that all satisfy the importance bound; records below
\* minImportance are neither included nor expanded
C19_NodesAreTheReachable ==
  (call.op = "graph" /\ Def(call.centerMemoryId)) =>
    GraphNodeIds = WithinHops(pre, {Val(call.centerMemoryId)}, CallDepth,
                              Admitted(pre, call.minImportance))

\* the records an edge joins
Joined(edge) == {edge.source, edge.target}

\* C20 as stated: in the output of associationGraph, two records associated
\* in both directions contribute exactly one edge, no two returned edges join
\* the same unordered pair of records, and stats.totalNodes and
\* stats.totalEdges equal the lengths of the returned nodes and edges lists
C20_OneEdgePerPair ==
  call.op = "graph" =>
    /\ \A a \in GraphNodeIds : \A b \in GraphNodeIds :
         (/\ a /= b
          /\ Includes(Assoc(pre, a), b)
          /\ Includes(Assoc(pre, b), a)) =>
           Cardinality({i \in 1..Len(GraphEdges) :
                          Joined(GraphEdges[i]) = {Uuid(a), Uuid(b)}}) = 1
    /\ \A i \in 1..Len(GraphEdges) : \A j \in 1..Len(GraphEdges) :
         i /= j => Joined(GraphEdges[i]) /= Joined(GraphEdges[j])
    /\ ret.val.stats.totalNodes = Len(GraphNodes)
    /\ ret.val.stats.totalEdges = Len(GraphEdges)

(* ---- properties of traversals over deleted records ---- *)
\* the ids named by a stored list that name no stored record
Missing(s) ==
  {id \in 1..GraphIds : ~Exists(s, id) /\ \E a \in DOMAIN s : Includes(Assoc(s, a), id)}

\* the store with the ids of missing records taken out of every list
WithoutMissing(s) ==
  [id \in DOMAIN s |->
     Spread(s[id], [associations |->
                      Some(SelectSeq(Assoc(s, id), LAMBDA a : Exists(s, a)))])]

AfterLinking ==
  ConsolidateMemories(pre, call.id, call.memoryIds, call.strategy, TRUE,
                      call.summary, call.similar).st

\* the associations the create of the consolidated record discovered
Discovered == Slice(Filter(call.similar, call.id), MaxAutoAssociations)

ConsolidatedInOrder ==
  /\ Exists(AfterLinking, call.id)
  /\ \A i \in 1..Len(call.memoryIds) : Exists(AfterLinking, call.memoryIds[i])
  /\ ~call.keepOriginals =>
       /\ Exists(store, call.id)
       /\ \A i \in 1..Len(call.memoryIds) : ~Exists(store, call.memoryIds[i])
  /\ \A i \in 1..Len(call.memoryIds) :
       Includes(Assoc(AfterLinking, call.memoryIds[i]), call.id) =>
         Includes(Discovered, call.memoryIds[i])

Merged == Spread(ReadPayload(pre[call.id]), call.updates)

\* the fields of the record that a patch may leave alone
Unsupplied ==
  {k \in MemoryKeys \ {"accessCount"} : ~Def(Get(call.updates, k))}

\* C24: an update that supplies non-empty content re-embeds the merged record
\* and upserts it; an update that supplies no content runs no association
\* discovery and changes only the supplied payload fields of the stored
\* record, apart from lastAccessed and accessCount
C24_ReembedOrPatch ==
  (call.op = "update" /\ Exists(pre, call.id) /\ ret.err /= "validation") =>
    IF Truthy(Get(call.updates, "content"))
    THEN /\ ret.err = "none"
         /\ store = UpsertMemory(pre, call.id, Merged)
    ELSE /\ ret.err = "none"
         /\ DOMAIN store = DOMAIN pre
         /\ \A id \in DOMAIN pre \ {call.id} : store[id] = pre[id]
         /\ \A k \in Unsupplied :
              ReadPayload(store[call.id])[k] = ReadPayload(pre[call.id])[k]

\* an update with content and no context, as the tool handler passes it,
\* raises and leaves the stored record as it was
C24_ContentOnlyUpdateRaises ==
  /\ call.op = "update"
  /\ Exists(pre, call.id)
  /\ Truthy(Get(call.updates, "content"))
  /\ "context" \in DOMAIN call.updates
  /\ ~Def(call.updates.context)
  /\ ret.err = "type"
  /\ store = pre

(* ---- properties of search with associations ---- *)
\* a search whose result is not passed through the reconstruction of chunks
PlainSearch ==
  /\ call.op = "search"
  /\ (~call.params.reconstructChunks \/ call.params.detailLevel = "compact")

\* the primary results: what the same search finds without associations
Primary ==
  SearchMemories(pre, [call.params EXCEPT !.includeAssociations = FALSE,
                                          !.detailLevel = "full"],
                 call.scores, call.uuidOrder).val.memories

PrimaryIds == {Val(Primary[i].id) : i \in 1..Len(Primary)}

\* the stored records that a primary result names
NamedByPrimary ==
  {id \in DOMAIN pre :
     \E i \in 1..Len(Primary) : Includes(Val(Primary[i].associations), id)}

Underlying == SearchMemories(pre, call.params, call.scores, call.uuidOrder)

IsChunk(memory) == "chunkOf" \in DOMAIN Val(memory.context)

\* the records of a list that are neither parent nor chunk
Regular(memories) ==
  SelectSeq(memories, LAMBDA m : ~IsParentChunk(m) /\ ~IsChunk(m))

CallContent == Val(call.content)

\* the chunks that the call's method cuts its content into
CallChunks == ChunkText(CallContent, call.options, call.embeddings).chunks

CallMaxChunkSize ==
  IF Opt(call.options, "maxChunkSize") /= 0 THEN Opt(call.options, "maxChunkSize")
  ELSE DefaultMaxChunkSize

StoredContext(id) == Val(ReadPayload(store[id]).context)

\* the result [parent, child_0 .. child_{N-1}] of a call that cut N chunks
ParentAndChildren ==
  /\ ret.err = "none"
  /\ Len(ret.val) = Len(CallChunks) + 1
  /\ DOMAIN store = DOMAIN pre \cup {ret.val[i] : i \in 1..Len(ret.val)}
  /\ \A i \in 1..Len(ret.val) : ret.val[i] = call.id + i - 1
  /\ StoredContext(Parent).isParentChunk
  /\ StoredContext(Parent).totalChunks = Len(CallChunks)
  /\ \A i \in 1..NumChildren :
       /\ StoredContext(Child(i)).chunkOf = Parent
       /\ StoredContext(Child(i)).chunkIndex = i - 1
       /\ StoredContext(Child(i)).totalChunks = Len(CallChunks)
       /\ ReadPayload(store[Child(i)]).content = Some(CallChunks[i].content)

\* C27: createWithChunking on content whose estimate ceil(length/4) is at most
\* maxChunkSize (default 1000) stores exactly one record and returns only it;
\* otherwise, for N chunks, it returns [parent, child_0 .. child_{N-1}] in
\* creation order, where the parent has isParentChunk=true and totalChunks=N
\* and child_i has chunkOf=parent.id, chunkIndex=i and totalChunks=N
C27_SingleOrParentAndChildren ==
  (call.op = "createWithChunking" /\ "options" \in DOMAIN call) =>
    IF EstimateTokens(CallContent) <= CallMaxChunkSize
    THEN /\ ret.err = "none"
         /\ ret.val = <<call.id>>
         /\ DOMAIN store = DOMAIN pre \cup {call.id}
         /\ ReadPayload(store[call.id]).content = call.content
    ELSE ParentAndChildren

\* a fixed-size chunked create that does not return
C27_FixedCreateHangs ==
  /\ call.op = "createWithChunking"
  /\ "options" \in DOMAIN call
  /\ call.options.method = "fixed"
  /\ EstimateTokens(CallContent) > CallMaxChunkSize
  /\ ret.err = "hang"

\* a fixed-size chunked create that raises after it stored the parent and a
\* chunk, on a window of blanks
C27_FixedCreateRaises ==
  /\ call.op = "createWithChunking"
  /\ "options" \in DOMAIN call
  /\ call.options.method = "fixed"
  /\ ret.err = "validation"
  /\ Cardinality(DOMAIN store) >= 2

\* the calls of C27 that the failures of fixed chunking and of blank content
\* are not part of
C27_HoldsForTheOtherMethods ==
  (/\ call.op = "createWithChunking"
   /\ "options" \in DOMAIN call
   /\ call.options.method /= "fixed"
   /\ Trim(CallContent) /= <<>>) =>
    C27_SingleOrParentAndChildren

(* ---- properties of the chunking methods ---- *)
NoEmptyChunk == \A i \in 1..Len(ret.val) : ret.val[i].content /= <<>>

\* C28: for each of the four chunking methods (fixed, sentence, paragraph,
\* semantic), empty input yields zero chunks, and no chunk produced for any
\* input has empty content
C28_NoEmptyChunkForAnyMethod ==
  call.op = "chunkText" =>
    /\ call.text = <<>> => (ret.err = "none" /\ ret.val = <<>>)
    /\ NoEmptyChunk

\* the runs that return satisfy C28, whatever the method
C28_HoldsWhenTheMethodReturns ==
  (call.op = "chunkText" /\ ret.err = "none") =>
    /\ call.text = <<>> => ret.val = <<>>
    /\ NoEmptyChunk

\* fixed windows with an overlap above the window size: the second window
\* pushed is empty, and the loop goes on
C28_EmptyWindowPushed ==
  /\ call.op = "chunkText"
  /\ call.options.method = "fixed"
  /\ call.options.overlapSize > call.options.maxChunkSize
  /\ call.options.maxChunkSize > 0
  /\ ret.err = "hang"
  /\ Len(ret.val) >= 2
  /\ ret.val[2].content = <<>>

\* the sentences of the call's text
CallSentences == SplitIntoSentences(call.text)

SentenceCall ==
  /\ call.op = "chunkText"
  /\ call.options.method = "sentence"
  /\ call.options.maxChunkSize /= 0

\* every chunk that holds more than one sentence is within maxChunkSize
ChunksWithinSize ==
  \A i \in 1..Len(ret.val) :
    Len(ret.val[i].sentences) > 1 =>
      SumTokens(ret.val[i].sentences) <= call.options.maxChunkSize

\* the chunks are runs of the input sentences that start and end later from
\* chunk to chunk and leave no sentence out
SentencesCoveredInOrder ==
  \/ (CallSentences = <<>> /\ ret.val = <<>>)
  \/ /\ CallSentences /= <<>>
     /\ ret.val /= <<>>
     /\ \E from \in [1..Len(ret.val) -> 1..Len(CallSentences)] :
          LET to == [c \in 1..Len(ret.val) |-> from[c] + Len(ret.val[c].sentences) - 1]
          IN /\ from[1] = 1
             /\ to[Len(ret.val)] = Len(CallSentences)
             /\ \A c \in 1..Len(ret.val) :
                  /\ to[c] <= Len(CallSentences)
                  /\ ret.val[c].sentences = SubSeq(CallSentences, from[c], to[c])
             /\ \A c \in 1..(Len(ret.val) - 1) :
                  /\ from[c] <= from[c + 1]
                  /\ from[c + 1] <= to[c] + 1
                  /\ to[c] < to[c + 1]

\* C29: in sentence chunking with maxChunkSize set, every emitted chunk that
\* holds more than one sentence has a summed per-sentence token estimate of at
\* most maxChunkSize, including chunks that begin with overlap sentences
\* carried over from the previous chunk; and every input sentence appears in
\* at least one chunk, in input order
C29_SentenceChunksWithinSize ==
  SentenceCall => (ChunksWithinSize /\ SentencesCoveredInOrder)

\* without overlap the chunks are within the size, and with or without it
\* the sentences are covered in order
C29_HoldsWithoutOverlap ==
  SentenceCall =>
    /\ SentencesCoveredInOrder
    /\ call.options.overlapSize = 0 => ChunksWithinSize

\* a chunk of two sentences of 2 tokens each under a maxChunkSize of 2: the
\* first is the overlap carried over, the second the sentence that did not fit
C29_OverlapChunkTooLarge ==
  /\ SentenceCall
  /\ call.options.maxChunkSize = 2
  /\ call.options.overlapSize = 1
  /\ Len(CallSentences) = 2
  /\ Len(ret.val) = 2
  /\ Len(ret.val[1].sentences) = 1
  /\ Len(ret.val[2].sentences) = 2
  /\ SumTokens(ret.val[2].sentences) = 4

(* ---- properties of the loop of fixedChunk ---- *)
FixedRunning == call.op = "fixedChunk" /\ ret.err = "running"

FixedReturned == call.op = "fixedChunk" /\ ret.err = "none"

\* each next window starts at the previous end minus overlapSize, and the
\* last window ends at the end of the text
WindowsChained ==
  /\ \A i \in 1..(Len(ret.val.chunks) - 1) :
       ret.val.chunks[i + 1].startIndex
         = ret.val.chunks[i].endIndex - FixedOverlapSize(call.options)
  /\ ret.val.chunks[Len(ret.val.chunks)].endIndex = Len(call.text)

\* C30: fixed-size chunking terminates on every non-empty text for every
\* maxChunkSize > 0 and every overlapSize >= 0 (including the defaulted
\* overlap of 10% of maxChunkSize), returning finitely many windows in which
\* each next window starts at the previous end minus overlapSize and the last
\* window ends at the end of the text
C30_FixedChunkTerminates ==
  /\ [](FixedRunning => <>FixedReturned)
  /\ [](FixedReturned => WindowsChained)

\* the runs that return: those whose overlap in force is 0, each with at most
\* one window for a character, chained as C30 says, and equal to what
\* FixedChunk computes
C30_ReturnsOnlyWithoutOverlap ==
  FixedReturned =>
    /\ FixedOverlapSize(call.options) = 0
    /\ Len(ret.val.chunks) <= Len(call.text)
    /\ WindowsChained
    /\ FixedChunk(call.text, call.options)
         = [ended |-> TRUE, chunks |-> ret.val.chunks]

\* with an overlap above 0 in force the loop is never left
C30_OverlapNeverReturns ==
  (call.op = "fixedChunk" /\ FixedOverlapSize(call.options) > 0) =>
    /\ ret.err = "running"
    /\ ret.val.startIndex < Len(call.text)

\* the loop at a standstill: the window just pushed ends at the end of the
\* text, and the next turn starts where this one started
C30_LoopStandsStill ==
  /\ FixedRunning
  /\ call.options.maxChunkSize = 10
  /\ call.options.overlapSize = 0
  /\ ret.val.chunks /= <<>>
  /\ ret.val.chunks[Len(ret.val.chunks)].endIndex = Len(call.text)
  /\ ret.val.startIndex = ret.val.chunks[Len(ret.val.chunks)].startIndex
  /\ ret.val.startIndex < Len(call.text)

(* ---- a get and an update of one record in flight at once ---- *)
\* call 1 is the get and call 2 the update
\* getMemory from its lookup of the record to the call of updateMemoryMetadata
\* with the access count it read, plus one
GetStart ==
  /\ upc[1] = "idle"
  /\ Exists(store, RaceTarget)
  /\ uarg' = [uarg EXCEPT ![1] =
                [accessCount |-> Some(AccessCount(store, RaceTarget) + 1)]]
  /\ uread' = [uread EXCEPT ![1] = [first |-> QdrantGetMemory(store, RaceTarget),
                                         last |-> QdrantGetMemory(store, RaceTarget)]]
  /\ upc' = [upc EXCEPT ![1] = "reread"]
  /\ UNCHANGED <<store, nextId, call, ret, pre, prevCall, stale, sseVars>>

\* the write of updateMemoryMetadata on behalf of the get: the whole record
\* as it was read again, with the bump; the get returns the record it read
\* first
GetWrite ==
  /\ upc[1] = "write"
  /\ store' = SetPayload(store, RaceTarget,
                         MetadataPayload(Val(uread[1].last), uarg[1]))
  /\ upc' = [upc EXCEPT ![1] = "done"]
  /\ stale' = stale \cup {q \in {2} : upc[q] \in {"write", "upsert"}}
  /\ call' = [op |-> "get", id |-> RaceTarget, by |-> 1]
  /\ ret' = [err |-> "none", val |-> uread[1].first]
  /\ pre' = store
  /\ UNCHANGED <<nextId, prevCall, uread, uarg, sseVars>>

NextGetRace ==
  \/ GetStart
  \/ UpdateReread(1)
  \/ GetWrite
  \/ UpdateStart(2)
  \/ UpdateReread(2)
  \/ UpdateWrite(2)

SpecGetRace == InitRace /\ [][NextGetRace]_vars

\* the get and the update have both returned
GetAndUpdateDone == upc[1] = "done" /\ upc[2] = "done"

\* C31: a get changes only lastAccessed and accessCount of the stored record,
\* also when it runs at the same time as an update of the same record: once
\* both have returned, the fields the update wrote are stored
C31_GetKeepsUpdatedFields ==
  GetAndUpdateDone => Reflects(store, uarg[2])

\* the fields of the update are stored unless the get read the record before
\* the update wrote and wrote it back after
C31_LostOnlyToAStaleGet ==
  GetAndUpdateDone => (Reflects(store, uarg[2]) <=> 1 \notin stale)

\* the get wrote last, from a record read before the update wrote: the
\* update's fields are gone from the store
C31_GetOverwritesUpdate ==
  /\ GetAndUpdateDone
  /\ call.op = "get"
  /\ 1 \in stale
  /\ ~Reflects(store, uarg[2])

(* ---- what a create leaves of the lists of the other records ---- *)
\* every id the record listed before the call is listed after it
KeepsAssociations(id) ==
  \A i \in 1..Len(Assoc(pre, id)) : Includes(Assoc(store, id), Assoc(pre, id)[i])

\* C32: creating a record never removes an association from any other record:
\* every record stored before the create lists, after it, every id it listed
\* before
C32_CreateKeepsAssociations ==
  (call.op = "create" /\ ret.err = "none") =>
    \A id \in DOMAIN pre : KeepsAssociations(id)

\* the lists of at most 5 entries are kept
C32_ShortListsAreKept ==
  (call.op = "create" /\ ret.err = "none") =>
    \A id \in DOMAIN pre :
      Len(Assoc(pre, id)) <= MaxReverseAssociations => KeepsAssociations(id)

\* a record found by the search listed 6 ids and, after the create, lists the
\* first 5 of them: the sixth is gone and the new id is not there
C32_CreateTruncatesLongList ==
  /\ call.op = "create"
  /\ ret.err = "none"
  /\ Includes(Assoc(store, call.id), 4)
  /\ Assoc(pre, 4) = <<1, 2, 3, 5, 6, 7>>
  /\ Assoc(store, 4) = <<1, 2, 3, 5, 6>>

(* ---- every call that writes association lists, on lists short and full ---- *)
\* records 1..MaxLinked, connected one way: record 1 lists 10 ids, record 2
\* lists 9, record 3 lists 5 and record 4 lists 4
LinkedStore ==
  Linked(Linked(Linked(Linked(BaseStore(MaxLinked),
                              1, [i \in 1..MaxAssociations |-> i + 1]),
                       2, [i \in 1..(MaxAssociations - 1) |-> i + 2]),
                3, [i \in 1..MaxReverseAssociations |-> IF i < 3 THEN i ELSE i + 1]),
         4, <<1, 2, 3, 5>>)

InitLinked ==
  /\ store \in {BaseStore(MaxLinked), LinkedStore}
  /\ nextId = MaxLinked + 1
  /\ call = Idle
  /\ ret = [err |-> "none", val |-> None]
  /\ pre = store
  /\ prevCall = Idle
  /\ NoRace

\* the ids the calls are given: the records with lists, the last record and
\* an id that names no record before a create
LinkIds == {1, 2, 3, 4, MaxLinked, MaxLinked + 1}

\* at most two calls per behaviour, the second one a connect, a
\* removeAssociation or a delete
FirstCall == call.op = "init"

SecondCall == call.op /= "init" /\ prevCall.op = "init"

AnyCreate ==
  /\ FirstCall
  /\ \E in \in ValidCreates :
       \E similar \in Arrangements({1, 2, 3, 4, nextId}, SimilarLimit) :
         Return([op |-> "create", id |-> nextId, content |-> in.content,
                 importance |-> in.importance],
                CreateMemory(store, nextId, in.content, in.type, in.context,
                             in.importance, similar))
  /\ nextId' = nextId + 1
  /\ prevCall' = call

AnyChunkedCreate ==
  /\ FirstCall
  /\ \E n \in 0..MaxChunks : \E policy \in Policies :
       LET r == CreateMemoryWithChunking(store, nextId, ParagraphText(n),
                  "semantic", None, None,
                  [method |-> "paragraph", maxChunkSize |-> 1], policy,
                  NoEmbeddings)
       IN /\ Return([op |-> "createWithChunking", id |-> nextId, n |-> n,
                     policy |-> policy, content |-> Some(ParagraphText(n)),
                     importance |-> None], r)
          /\ nextId' = nextId + Allocated(r.st, nextId)
  /\ prevCall' = call

AnyConnect ==
  /\ FirstCall \/ SecondCall
  /\ \E sourceId \in LinkIds : \E targetId \in LinkIds :
       \E bidirectional \in BOOLEAN :
         Return([op |-> "connect", sourceId |-> sourceId, targetId |-> targetId,
                 bidirectional |-> bidirectional],
                ConnectMemories(store, sourceId, targetId, bidirectional))
  /\ prevCall' = call
  /\ UNCHANGED nextId

AnyRemove ==
  /\ FirstCall \/ SecondCall
  /\ \E sourceId \in LinkIds : \E targetId \in LinkIds :
       \E bidirectional \in BOOLEAN :
         Return([op |-> "removeAssociation", sourceId |-> sourceId,
                 targetId |-> targetId, bidirectional |-> bidirectional],
                RemoveAssociation(store, sourceId, targetId, bidirectional))
  /\ prevCall' = call
  /\ UNCHANGED nextId

AnyDelete ==
  /\ FirstCall \/ SecondCall
  /\ \E id \in LinkIds :
       Return([op |-> "delete", id |-> id], DeleteMemory(store, id))
  /\ prevCall' = call
  /\ UNCHANGED nextId

AnyBulkDelete ==
  /\ FirstCall
  /\ \E ids \in Arrangements({1, 2, MaxLinked + 1}, MaxBulk) \cup {<<2, 2>>} :
       \E cleanupFailsAt \in 0..Len(ids) :
         \E batchFails \in BOOLEAN : \E failing \in SUBSET (1..Len(ids)) :
           /\ cleanupFailsAt > 0 => ~batchFails
           /\ ~batchFails => failing = {}
           /\ batchFails => Len(ids) > 0
           /\ Return([op |-> "bulkDelete", ids |-> ids,
                      cleanupFailsAt |-> cleanupFailsAt, batchFails |-> batchFails,
                      failing |-> failing],
                     DeleteMemories(store, ids, cleanupFailsAt, batchFails, failing))
  /\ prevCall' = call
  /\ UNCHANGED nextId

AnyConsolidate ==
  /\ FirstCall
  /\ \E memoryIds \in {<<1, 2>>, <<2, 1, MaxLinked + 1>>, [i \in 1..MaxLinked |-> i]} :
       \E strategy \in Strategies : \E keepOriginals \in BOOLEAN :
         \E similar \in {<<>>, <<1, 2, 3>>, <<nextId, 4, 3, 1>>} :
           LET r == ConsolidateMemories(store, nextId, memoryIds, strategy,
                                        keepOriginals, <<"s">>, similar)
           IN /\ Return([op |-> "consolidate", id |-> nextId,
                         memoryIds |-> memoryIds, strategy |-> strategy,
                         keepOriginals |-> keepOriginals, similar |-> similar], r)
              /\ nextId' = IF Exists(r.st, nextId) THEN nextId + 1 ELSE nextId
  /\ prevCall' = call

NextLinked ==
  \/ AnyCreate
  \/ AnyChunkedCreate
  \/ AnyConnect
  \/ AnyRemove
  \/ AnyDelete
  \/ AnyBulkDelete
  \/ AnyConsolidate

SpecLinked == InitLinked /\ [][NextLinked]_vars

(* ---- properties of the association lists ---- *)
\* the list names no id twice
NoDuplicates(list) ==
  \A i \in 1..Len(list) : \A j \in 1..Len(list) : list[i] = list[j] => i = j

\* C33: after any sequence of create, createWithChunking, connect,
\* removeAssociation, delete, bulkDelete and consolidate calls made one after
\* the other, the association list of every stored record names no id twice
\* and has at most 10 entries
C33_ListsWithinCapNoDuplicates ==
  \A id \in DOMAIN store :
    /\ NoDuplicates(Assoc(store, id))
    /\ Len(Assoc(store, id)) <= MaxAssociations

\* a connect whose source listed 10 ids, none of them the target, after an
\* earlier call: the source still lists 10
C33_Witness ==
  /\ call.op = "connect"
  /\ prevCall.op /= "init"
  /\ ret.err = "none"
  /\ Len(Assoc(pre, call.sourceId)) = MaxAssociations
  /\ ~Includes(Assoc(pre, call.sourceId), call.targetId)
  /\ Len(Assoc(store, call.sourceId)) = MaxAssociations

(* ---- properties of an update through the tool handler ---- *)
\* the update_memory handler was given new content and nothing else: it
\* passes the four keys, three of them undefined
ContentOnlyUpdate ==
  /\ call.op = "update"
  /\ Exists(pre, call.id)
  /\ DOMAIN call.updates = {"content", "importance", "context", "metadata"}
  /\ Truthy(call.updates.content)
  /\ Trim(Val(call.updates.content)) /= <<>>
  /\ \A k \in {"importance", "context", "metadata"} : ~Def(call.updates[k])

\* C34: an update through the update_memory handler that supplies only new
\* non-empty content succeeds, stores the new content and leaves the stored
\* context, metadata and associations of the record as they were
C34_ContentOnlyUpdateSucceeds ==
  ContentOnlyUpdate =>
    /\ ret.err = "none"
    /\ ReadPayload(store[call.id]).content = call.updates.content
    /\ \A k \in {"context", "metadata", "associations"} :
         ReadPayload(store[call.id])[k] = ReadPayload(pre[call.id])[k]

\* what it leaves alone, it leaves alone by raising: the new content is not
\* stored
C34_ContentNotStored ==
  /\ ContentOnlyUpdate
  /\ ret.err = "type"
  /\ ReadPayload(store[call.id]).content /= call.updates.content

(* ---- properties of chunked creates of blank content ---- *)
\* a chunked create whose content is empty once trimmed
BlankChunkedCreate ==
  /\ call.op = "createWithChunking"
  /\ "options" \in DOMAIN call
  /\ Trim(CallContent) = <<>>

\* C35: createWithChunking given whitespace-only content of any length raises
\* a validation error and stores no record
C35_BlankChunkedCreateRaises ==
  BlankChunkedCreate => (ret.err = "validation" /\ store = pre)

\* it does so when the content is short enough for the single-record path
C35_HoldsOnTheSinglePath ==
  (BlankChunkedCreate /\ EstimateTokens(CallContent) <= CallMaxChunkSize) =>
    (ret.err = "validation" /\ store = pre)

\* whitespace longer than the chunk size, cut by paragraphs into no chunk:
\* the call returns the parent record it stored
C35_ParentOfBlankContentStored ==
  /\ BlankChunkedCreate
  /\ call.options.method = "paragraph"
  /\ ret.err = "none"
  /\ ret.val = <<call.id>>
  /\ Exists(store, call.id)
  /\ StoredContext(call.id).isParentChunk
  /\ StoredContext(call.id).totalChunks = 0

\* cut into fixed windows without overlap: the call raises on the first
\* window, after it stored the parent
C35_RaisesAfterParentStored ==
  /\ BlankChunkedCreate
  /\ call.options.method = "fixed"
  /\ ret.err = "validation"
  /\ DOMAIN store = DOMAIN pre \cup {call.id}

(* ---- properties of the edges of the association graph ---- *)
\* C36: in the output of associationGraph, both endpoints of every returned
\* edge are ids of records in the returned nodes list
C36_EdgesJoinNodes ==
  call.op = "graph" =>
    \A i \in 1..Len(GraphEdges) :
      \E a \in GraphNodeIds : \E b \in GraphNodeIds :
        /\ GraphEdges[i].source = Uuid(a)
        /\ GraphEdges[i].target = Uuid(b)

\* a graph of depth 0 around a record that lists two other records: the
\* center is the only node, and there are two edges
C36_EdgeBeyondDepth ==
  /\ call.op = "graph"
  /\ call.centerMemoryId = Some(1)
  /\ call.depth = Some(0)
  /\ Assoc(pre, 1) = <<2, 3>>
  /\ GraphNodeIds = {1}
  /\ Len(GraphEdges) = 2

\* a graph around a record that lists a record below the importance bound:
\* the listed record is no node, and there is an edge for it
C36_EdgeToPrunedRecord ==
  /\ call.op = "graph"
  /\ call.centerMemoryId = Some(1)
  /\ call.depth = Some(1)
  /\ call.minImportance = Some(50)
  /\ Assoc(pre, 1) = <<2>>
  /\ Exists(pre, 2)
  /\ GraphNodeIds = {1}
  /\ Len(GraphEdges) = 1

\* C37: for records whose ids are the uuids given at creation, every edge
\* returned by associationGraph has as source and target the complete ids of
\* two records of which one lists the other
C37_EdgesCarryCompleteIds ==
  call.op = "graph" =>
    \A i \in 1..Len(GraphEdges) :
      \E a \in DOMAIN pre : \E j \in 1..Len(Assoc(pre, a)) :
        Joined(GraphEdges[i]) = {Uuid(a), Uuid(Assoc(pre, a)[j])}

\* the edge of records 1 and 2 as returned: the first two groups of the uuid
\* of record 1
C37_EdgeOfUuidGroups ==
  /\ call.op = "graph"
  /\ call.centerMemoryId = Some(1)
  /\ Assoc(pre, 1) = <<2>>
  /\ Len(GraphEdges) >= 1
  /\ GraphEdges[1] = [source |-> <<"1">>, target |-> <<"0">>]

\* no end of a returned edge is the id of a record
C37_NoEdgeCarriesAnId ==
  call.op = "graph" =>
    \A i \in 1..Len(GraphEdges) : \A a \in 1..(GraphIds + 1) :
      GraphEdges[i].source /= Uuid(a) /\ GraphEdges[i].target /= Uuid(a)

(* ---- properties of the ids of the paths found ---- *)
\* C38: every id in every path returned by findPaths names a record that is
\* stored at the time of the call, also when startId equals endId and when
\* endId is named by a stored list and names no record
C38_PathsNameStoredRecords ==
  call.op = "findPaths" =>
    \A i \in 1..Len(ret.val) : \A k \in 1..Len(ret.val[i]) :
      Exists(pre, ret.val[i][k])

\* an id of a path that names no record is the last of its path, and is endId
C38_OnlyTheEndMayBeMissing ==
  call.op = "findPaths" =>
    \A i \in 1..Len(ret.val) : \A k \in 1..Len(ret.val[i]) :
      ~Exists(pre, ret.val[i][k]) =>
        (k = Len(ret.val[i]) /\ ret.val[i][k] = call.endId)

\* a path to a deleted record that a stored list still names
C38_PathToDeletedRecord ==
  /\ call.op = "findPaths"
  /\ call.startId = 1
  /\ call.endId = 2
  /\ ~Exists(pre, 2)
  /\ Exists(pre, 1)
  /\ Includes(Assoc(pre, 1), 2)
  /\ \E i \in 1..Len(ret.val) : ret.val[i] = <<1, 2>>

\* the path from a deleted record to itself
C38_PathOfDeletedStart ==
  /\ call.op = "findPaths"
  /\ call.startId = call.endId
  /\ ~Exists(pre, call.startId)
  /\ ret.val = <<<<call.startId>>>>

(* ---- the record that create returns ---- *)
\* C39: the record returned by create equals the record held in the store
\* when create returns; in particular its associations list equals the stored
\* associations written by association discovery
C39_ReturnedEqualsStored ==
  (call.op = "create" /\ ret.err = "none") =>
    /\ Val(ret.val) = ReadPayload(store[call.id])
    /\ Val(Val(ret.val).associations) = Assoc(store, call.id)

\* the two are equal when the search found no other record
C39_EqualWhenNothingFound ==
  (call.op = "create" /\ ret.err = "none" /\ Assoc(store, call.id) = <<>>) =>
    Val(ret.val) = ReadPayload(store[call.id])

\* apart from the associations and the access count the two are equal
C39_OtherFieldsEqual ==
  (call.op = "create" /\ ret.err = "none") =>
    \A k \in MemoryKeys \ {"associations", "accessCount"} :
      Val(ret.val)[k] = ReadPayload(store[call.id])[k]

\* three records found: the stored record lists them, the returned one lists
\* nothing
C39_ReturnedListIsEmpty ==
  /\ call.op = "create"
  /\ ret.err = "none"
  /\ Assoc(store, call.id) = <<1, 2, 3>>
  /\ Val(Val(ret.val).associations) = <<>>

(* ---- part_004: the SSE transport server ---- *)
\* a metadata object: its entries [key, value] in insertion order
SetEntry(metadata, key, value) ==
  IF \E i \in 1..Len(metadata) : metadata[i].key = key
  THEN [i \in 1..Len(metadata) |->
          IF metadata[i].key = key THEN [key |-> key, value |-> value]
          ELSE metadata[i]]
  ELSE Append(metadata, [key |-> key, value |-> value])

UserKey == <<"u", "s", "e", "r">>

\* one pair of the header: "key:value", or a value stored under user
ParsePair(metadata, pair) ==
  LET colonIndex == TextIndexOf(pair, <<":">>, 0)
      key == Trim(Substring(pair, 0, colonIndex))
      value == Trim(SubSeq(pair, colonIndex + 2, Len(pair)))
  IN IF colonIndex > 0 - 1
     THEN IF key /= <<>> /\ value /= <<>> THEN SetEntry(metadata, key, value)
          ELSE metadata
     ELSE IF Trim(pair) /= <<>> THEN SetEntry(metadata, UserKey, Trim(pair))
          ELSE metadata

RECURSIVE ParsePairs(_, _, _)
ParsePairs(metadata, pairs, i) ==
  IF i > Len(pairs) THEN metadata
  ELSE ParsePairs(ParsePair(metadata, pairs[i]), pairs, i + 1)

ParseClientMetadata(metadataStr) ==
  IF metadataStr = <<>> THEN <<>>
  ELSE ParsePairs(<<>>, Split(metadataStr, ","), 1)

\* key:value of each entry, joined by commas
FormatMetadata(metadata) ==
  Join([i \in 1..Len(metadata) |-> metadata[i].key \o <<":">> \o metadata[i].value],
       <<",">>)

GetClientMetadata(sessionId) ==
  IF sessionId \in DOMAIN clientMetadata THEN Some(clientMetadata[sessionId]) ELSE None

\* the Memory-Metadata header of a connection: absent, a value, a pair, two
\* pairs of one key, and separators only
MetadataHeaders ==
  {<<>>, <<"u">>, <<"k", ":", "v">>, <<"k", ":", "v", ",", "k", ":", "w">>, <<",">>}

\* the bookkeeping of a step of the transport server that answers no request
SseStep(op, sessionId) ==
  /\ call' = [op |-> op, sessionId |-> Some(sessionId)]
  /\ ret' = [err |-> "none", val |-> None]
  /\ UNCHANGED <<store, nextId, pre, prevCall, upc, uread, uarg, stale>>

\* GET /sse: a transport is made and stored under its session id, the
\* metadata of the header is stored when the header is not empty, and the
\* connect to the MCP server is started
OpenSse ==
  /\ listening
  /\ nextSession <= MaxSessions
  /\ \E header \in MetadataHeaders :
       clientMetadata' =
         IF header /= <<>>
         THEN [sessionId \in DOMAIN clientMetadata \cup {nextSession} |->
                 IF sessionId = nextSession THEN ParseClientMetadata(header)
                 ELSE clientMetadata[sessionId]]
         ELSE clientMetadata
  /\ transports' = transports \cup {nextSession}
  /\ responses' = responses \cup {nextSession}
  /\ connecting' = connecting \cup {nextSession}
  /\ nextSession' = nextSession + 1
  /\ SseStep("sse", nextSession)
  /\ UNCHANGED listening

\* the connect to the MCP server succeeds
ConnectSucceeds ==
  /\ \E sessionId \in connecting :
       /\ connecting' = connecting \ {sessionId}
       /\ SseStep("connected", sessionId)
  /\ UNCHANGED <<transports, clientMetadata, responses, listening, nextSession>>

\* the connect to the MCP server fails: the catch deletes the transport
ConnectFails ==
  /\ \E sessionId \in connecting :
       /\ connecting' = connecting \ {sessionId}
       /\ transports' = transports \ {sessionId}
       /\ SseStep("connectFailed", sessionId)
  /\ UNCHANGED <<clientMetadata, responses, listening, nextSession>>

\* the entries of a session deleted from both maps
Forget(sessionId) ==
  /\ transports' = transports \ {sessionId}
  /\ clientMetadata' = [s \in DOMAIN clientMetadata \ {sessionId} |-> clientMetadata[s]]

\* the response of a session closes
CloseSse ==
  /\ \E sessionId \in responses :
       /\ Forget(sessionId)
       /\ responses' = responses \ {sessionId}
       /\ SseStep("close", sessionId)
  /\ UNCHANGED <<connecting, listening, nextSession>>

\* the response of a session reports an error; it is still to close
ErrorSse ==
  /\ \E sessionId \in responses :
       /\ Forget(sessionId)
       /\ SseStep("error", sessionId)
  /\ UNCHANGED <<responses, connecting, listening, nextSession>>

\* stop: every transport is closed and the map of transports is cleared; the
\* responses that the transports end close afterwards
Stop ==
  /\ listening
  /\ transports' = {}
  /\ listening' = FALSE
  /\ call' = [op |-> "stop", sessionId |-> None]
  /\ ret' = [err |-> "none", val |-> None]
  /\ UNCHANGED <<store, nextId, pre, prevCall, upc, uread, uarg, stale>>
  /\ UNCHANGED <<clientMetadata, responses, connecting, nextSession>>

\* the requests of POST /messages: a tool call that stores a memory, and
\* another message
StoreMemoryCall == [method |-> "tools/call", name |-> "store_memory"]

Bodies == {StoreMemoryCall, [method |-> "tools/call", name |-> "search_memories"]}

\* the status of the answer that the transport of the SDK gives to a message
\* it is handed
TransportAnswers == {202, 400, 500}

\* POST /messages: 400 without a session id or without a transport for it;
\* otherwise the message, with the client metadata of the session added to a
\* call that stores a memory, is handed to the transport
PostMessage ==
  /\ \E sessionId \in {None} \cup {Some(s) : s \in 1..MaxSessions} :
       \E body \in Bodies : \E status \in TransportAnswers :
         LET found == Def(sessionId) /\ Val(sessionId) \in transports
             metadata == IF Def(sessionId) THEN GetClientMetadata(Val(sessionId))
                         ELSE None
         IN /\ call' = [op |-> "postMessage", sessionId |-> sessionId,
                        body |-> body, found |-> found]
            /\ ret' = [err |-> "none",
                       val |-> IF found
                               THEN [status |-> status, handledBy |-> sessionId,
                                     injected |->
                                       IF body = StoreMemoryCall /\ Def(metadata)
                                       THEN Some(FormatMetadata(Val(metadata)))
                                       ELSE None]
                               ELSE [status |-> 400, handledBy |-> None,
                                     injected |-> None]]
  /\ UNCHANGED <<store, nextId, pre, prevCall, upc, uread, uarg, stale, sseVars>>

NextSse ==
  \/ OpenSse
  \/ ConnectSucceeds
  \/ ConnectFails
  \/ CloseSse
  \/ ErrorSse
  \/ Stop
  \/ PostMessage

SpecSse == InitEmpty /\ [][NextSse]_vars

(* ---- properties of the sessions of the transport server ---- *)
\* a POST that names a session without a transport is answered with 400 and
\* handed to no transport
UnknownSessionRefused ==
  (call.op = "postMessage" /\ Def(call.sessionId) /\ ~call.found) =>
    (ret.val.status = 400 /\ ~Def(ret.val.handledBy))

\* C40: after any sequence of connection opens, closes, connection errors,
\* failed server connects and stop(), every session id that has stored client
\* metadata also has an active transport, and a POST /messages naming a
\* session id without an active transport is answered with 400 and handled by
\* no transport
C40_MetadataOnlyForActiveTransports ==
  /\ DOMAIN clientMetadata \subseteq transports
  /\ UnknownSessionRefused

\* what holds of the metadata: it is kept only while the response of its
\* session is open; and the POST half of C40
C40_MetadataOnlyForOpenResponses ==
  /\ DOMAIN clientMetadata \subseteq responses
  /\ UnknownSessionRefused

\* the connect of a session with metadata failed: its metadata is kept
C40_MetadataLeftByFailedConnect ==
  /\ call.op = "connectFailed"
  /\ Val(call.sessionId) \in DOMAIN clientMetadata
  /\ Val(call.sessionId) \notin transports
  /\ listening

\* stop left the metadata of the sessions whose transports it cleared
C40_MetadataLeftByStop ==
  /\ call.op = "stop"
  /\ transports = {}
  /\ DOMAIN clientMetadata /= {}

====
